---- MODULE Spec2Model ----
(***************************************************************************)
(* Model of the graph part of the Albion project layer                     *)
(* (src/albion/project.py): the tables albion.graph,                       *)
(* albion.graph_relationship, albion.node, albion.edge, albion.end_node    *)
(* and albion.metadata, and the Project methods that act on them.  Each    *)
(* method runs in one transaction (the `with self.connect() as con` block  *)
(* commits on normal exit, rolls back on an exception), so one method is   *)
(* one atomic action.                                                      *)
(***************************************************************************)
EXTENDS Integers, Sequences, FiniteSets, TLC

VARIABLES graph, graph_relationship, node, edge, end_node, metadata,
          node_id_seq, created, lastOp,
          collar, resistivity, section, named_section,
          pg_database, schema, files, db_made,
          cell, hole_nodes, cells,
          HAVE_SIMILOG, albion_similog, famsa, menu,
          pg_stat_activity,
          current_graph, added_types,
          spin_box, valueChanged

\* the state the graph methods leave alone
server == <<pg_database, schema, files, db_made>>

\* the table of cells and the two materialized views read from it
triangulation == <<cell, hole_nodes, cells>>

\* the plugin in the desktop application: what its import found, what is
\* installed on the computer, the entries of its menu
desktop == <<HAVE_SIMILOG, albion_similog, famsa, menu>>

\* the plugin's own state: the combo box of graphs of its toolbar (its items
\* and the index of the current one, 0 for none) and, for the record, the
\* data types of the layers whose selections went into each graph since the
\* graph was created
plugin == <<current_graph, added_types>>

\* the similog dialog: the values of its four spin boxes and the
\* valueChanged signals emitted and not handled yet
similog == <<spin_box, valueChanged>>

others == <<collar, resistivity, section, named_section, server, triangulation, desktop,
            pg_stat_activity, plugin, similog>>

vars == <<graph, graph_relationship, node, edge, end_node, metadata,
          node_id_seq, created, lastOp, others>>

(* ------------------------------ bounds -------------------------------- *)

\* largest node id the sequence behind albion.node.id hands out
MaxNodes == 3

\* the same, where graphs are created, typed and deleted
MaxGraphNodes == 2

\* the same, where pairs of nodes are handed to valid_offset
MaxOffsetNodes == 2

\* the same, where the node lists of the edge tests are inserted whole
MaxEdgeNodes == 5

\* the same, where edges are accepted and terminations created
MaxEndNodes == 3

\* number of lines a user can draw as named sections of one section
MaxLines == 2

\* number of resistivity measures of the largest data set
MaxRows == 2

(* ------------------------------ domains ------------------------------- *)

\* the project the Project object of the tests is made for
ProjectName == "niger"

\* names a database of the server can have
DbNames == {"niger", "tarat"}

\* rows of albion.resistivity a data set brings
ResistivityRows == 1..MaxRows

\* what Project.create installs: the albion schema with its metadata row
BaseSchema == {"albion"}

\* SQL NULL of a varchar column
NULL == "NULL"

\* SQL NULL of albion.node.parent (node ids are positive integers)
NoNode == 0

Graphs == {"ref", "sub"}

\* the spin boxes of the similog dialog; the two boxes of a pair have the
\* same range, counted in steps of the boxes
SpinBoxes == {"_depth_min", "_depth_max", "_value_min", "_value_max"}

MaximumBoxes == {"_depth_max", "_value_max"}

SpinMinimum == 0

SpinMaximum == 3

GraphTypes == {"formation", "resistivity"}

Holes == {"h0", "h1", "h2", "h3"}

\* edges of the two cells (2,0,1) and (2,1,3) of the triangulation
CellEdges == {{"h2", "h0"}, {"h0", "h1"}, {"h2", "h1"}, {"h1", "h3"}, {"h2", "h3"}}

Neighbour(h1, h2) == {h1, h2} \in CellEdges

\* horizontal distance between the collars of two holes
HoleDist(h1, h2) ==
    IF h1 = h2 THEN 0
    ELSE IF {h1, h2} \in {{"h0", "h1"}, {"h1", "h2"}, {"h1", "h3"}} THEN 100
    ELSE IF {h1, h2} = {"h0", "h3"} THEN 200
    ELSE 141

\* values of metadata.correlation_angle and parent_correlation_angle, degrees
Angles == {1, 5, 10, 15, 20}

\* 1000 * tan(angle), rounded
Tan1000(a) ==
    CASE a = 1 -> 17
      [] a = 5 -> 87
      [] a = 10 -> 176
      [] a = 15 -> 268
      [] a = 20 -> 364

Abs(x) == IF x < 0 THEN 0 - x ELSE x

Min(S) == CHOOSE x \in S : \A y \in S : x <= y

Range(s) == {s[i] : i \in 1..Len(s)}

(* --------------------------- albion.graph ----------------------------- *)

GraphIds(gs) == {gs[i].id : i \in 1..Len(gs)}

\* rows of a table that satisfy a predicate, in table order
RECURSIVE DeleteGraphRows(_, _)
DeleteGraphRows(gs, graph_id) ==
    IF gs = <<>> THEN <<>>
    ELSE IF Head(gs).id = graph_id THEN DeleteGraphRows(Tail(gs), graph_id)
    ELSE <<Head(gs)>> \o DeleteGraphRows(Tail(gs), graph_id)

GraphType(gs, graph_id) ==
    LET i == CHOOSE j \in 1..Len(gs) : gs[j].id = graph_id IN gs[i].graph_type


\* variant: the cascade follows child_id only
DeleteRelationshipRows_child_only(rel, graph_id) == {r \in rel : r[2] # graph_id}

\* ON DELETE CASCADE of albion.graph_relationship on both of its columns
DeleteRelationshipRows(rel, graph_id) ==
    {r \in rel : r[1] # graph_id /\ r[2] # graph_id}

(* --------------------------- albion.node ------------------------------ *)

NodeIds(nodes) == {n.id : n \in nodes}

NodeById(nodes, id) == CHOOSE n \in nodes : n.id = id

NodesOfGraph(nodes, graph_id) == {n \in nodes : n.graph_id = graph_id}

\* twice the distance between the middles of two depth intervals
DepthDist(n, m) == Abs((n.from_ + n.to_) - (m.from_ + m.to_))

\* nodes of the parent graphs of n's graph that lie on n's hole
ParentCandidates(nodes, rel, n) ==
    {m \in nodes : /\ m.id # n.id
                   /\ m.hole_id = n.hole_id
                   /\ <<m.graph_id, n.graph_id>> \in rel}

\* ids the parent column of n may take: the nearest candidates, or NULL
NearestParents(nodes, rel, n) ==
    LET cand == ParentCandidates(nodes, rel, n)
    IN IF cand = {} THEN {NoNode}
       ELSE {m.id : m \in {c \in cand :
                             \A d \in cand : DepthDist(n, c) <= DepthDist(n, d)}}

\* the node tables in which every node of todo carries a nearest parent
RECURSIVE ResolveSome(_, _, _)
ResolveSome(todo, nodes, rel) ==
    IF todo = {} THEN {{}}
    ELSE LET n == CHOOSE x \in todo : TRUE
         IN {{[n EXCEPT !.parent = p]} \cup rest :
                p \in NearestParents(nodes, rel, n),
                rest \in ResolveSome(todo \ {n}, nodes, rel)}

\* parent resolution done by the triggers of albion.node
ResolveParents(nodes, rel) == ResolveSome(nodes, nodes, rel)

NewNodeRow(id, f, graph_id) ==
    [id |-> id, from_ |-> f.from_, to_ |-> f.to_, hole_id |-> f.hole_id,
     graph_id |-> graph_id, parent |-> NoNode]

\* INSERT of the rows of features, one after the other, ids from the sequence
RECURSIVE InsertNodeRows(_, _, _, _)
InsertNodeRows(nodes, features, graph_id, first_id) ==
    IF features = <<>> THEN nodes
    ELSE InsertNodeRows(nodes \cup {NewNodeRow(first_id, Head(features), graph_id)},
                        Tail(features), graph_id, first_id + 1)

(* ------------------- albion.edge and albion.end_node ------------------ *)

\* ON DELETE CASCADE of the rows that reference a deleted node or graph
EdgesKept(edges, nodes_kept, graph_id) ==
    {e \in edges : /\ e.graph_id # graph_id
                   /\ e.start_ \in NodeIds(nodes_kept)
                   /\ e.end_ \in NodeIds(nodes_kept)}

EndNodesKept(ends, nodes_kept, graph_id) ==
    {t \in ends : t.graph_id # graph_id /\ t.node_id \in NodeIds(nodes_kept)}

\* ON DELETE SET NULL of albion.node.parent
ParentsKept(nodes_kept) ==
    {[n EXCEPT !.parent = IF n.parent \in NodeIds(nodes_kept) THEN n.parent ELSE NoNode] :
        n \in nodes_kept}

(* --------------------------- valid_offset ----------------------------- *)

\* an offset (in depth units) is under the threshold tan(angle) * distance;
\* the median offset is handed over doubled, hence the factor 2 everywhere
UnderThreshold(offset2, dist, angle) == offset2 * 1000 < 2 * Tan1000(angle) * dist

StartOffset2(n1, n2) == 2 * Abs(n1.from_ - n2.from_)

MedianOffset2(n1, n2) == Abs((n1.from_ + n1.to_) - (n2.from_ + n2.to_))

EndOffset2(n1, n2) == 2 * Abs(n1.to_ - n2.to_)

\* variant: every one of the three offsets has to be under the threshold
valid_offset_all(n1, n2, angle) ==
    /\ UnderThreshold(StartOffset2(n1, n2), HoleDist(n1.hole_id, n2.hole_id), angle)
    /\ UnderThreshold(MedianOffset2(n1, n2), HoleDist(n1.hole_id, n2.hole_id), angle)
    /\ UnderThreshold(EndOffset2(n1, n2), HoleDist(n1.hole_id, n2.hole_id), angle)

valid_offset(n1, n2, angle) ==
    UnderThreshold(Min({StartOffset2(n1, n2), MedianOffset2(n1, n2), EndOffset2(n1, n2)}),
                   HoleDist(n1.hole_id, n2.hole_id), angle)

\* the same test on the difference between a pair's offset and its parent pair's
valid_parent_offset(n1, n2, p1, p2, angle) ==
    LET s == 2 * Abs((n2.from_ - n1.from_) - (p2.from_ - p1.from_))
        m == Abs(((n2.from_ + n2.to_) - (n1.from_ + n1.to_))
                 - ((p2.from_ + p2.to_) - (p1.from_ + p1.to_)))
        e == 2 * Abs((n2.to_ - n1.to_) - (p2.to_ - p1.to_))
    IN UnderThreshold(Min({s, m, e}), HoleDist(n1.hole_id, n2.hole_id), angle)

(* -------------------------- albion.possible_edge ---------------------- *)

HasParentGraph(rel, graph_id) == \E r \in rel : r[2] = graph_id

EdgeRow(a, b) == [start_ |-> a.id, end_ |-> b.id, graph_id |-> a.graph_id]

\* pairs of nodes of one graph on two different holes, lower id first
NodePairs(nodes) ==
    {p \in nodes \X nodes : /\ p[1].id < p[2].id
                            /\ p[1].graph_id = p[2].graph_id
                            /\ p[1].hole_id # p[2].hole_id}

\* variant: the view reads a correlation angle cached at 5 degrees
RootPossibleEdges_cached_angle(nodes, rel, md) ==
    {EdgeRow(p[1], p[2]) : p \in {q \in NodePairs(nodes) :
        /\ ~HasParentGraph(rel, q[1].graph_id)
        /\ valid_offset(q[1], q[2], 5)}}

RootPossibleEdges(nodes, rel, md) ==
    {EdgeRow(p[1], p[2]) : p \in {q \in NodePairs(nodes) :
        /\ ~HasParentGraph(rel, q[1].graph_id)
        /\ valid_offset(q[1], q[2], md.correlation_angle)}}

\* variant: the child pair is compared with its parents without asking
\* for a possible edge between them
ChildPossibleEdges_no_parent_edge(nodes, rel, md, parent_edges) ==
    {EdgeRow(p[1], p[2]) : p \in {q \in NodePairs(nodes) :
        /\ HasParentGraph(rel, q[1].graph_id)
        /\ q[1].parent # NoNode
        /\ q[2].parent # NoNode
        /\ valid_parent_offset(q[1], q[2], NodeById(nodes, q[1].parent),
                               NodeById(nodes, q[2].parent),
                               md.parent_correlation_angle)}}

ChildPossibleEdges(nodes, rel, md, parent_edges) ==
    {EdgeRow(p[1], p[2]) : p \in {q \in NodePairs(nodes) :
        /\ HasParentGraph(rel, q[1].graph_id)
        /\ q[1].parent # NoNode
        /\ q[2].parent # NoNode
        /\ \E pe \in parent_edges : {pe.start_, pe.end_} = {q[1].parent, q[2].parent}
        /\ valid_parent_offset(q[1], q[2], NodeById(nodes, q[1].parent),
                               NodeById(nodes, q[2].parent),
                               md.parent_correlation_angle)}}

\* the view, evaluated level by level down the graph hierarchy
RECURSIVE PossibleEdgesUpTo(_, _, _, _)
PossibleEdgesUpTo(level, nodes, rel, md) ==
    IF level = 0 THEN RootPossibleEdges(nodes, rel, md)
    ELSE LET above == PossibleEdgesUpTo(level - 1, nodes, rel, md)
         IN above \cup ChildPossibleEdges(nodes, rel, md, above)

possible_edge(nodes, rel, md) == PossibleEdgesUpTo(Cardinality(Graphs), nodes, rel, md)

(* ------------------------- albion.dynamic_end_node -------------------- *)

EndRow(n, h) == [node_id |-> n.id, hole_id |-> h, graph_id |-> n.graph_id]

\* n has an accepted edge whose other end lies on hole h
HasEdgeToward(nodes, edges, n, h) ==
    \E e \in edges :
        /\ e.graph_id = n.graph_id
        /\ \/ e.start_ = n.id /\ NodeById(nodes, e.end_).hole_id = h
           \/ e.end_ = n.id /\ NodeById(nodes, e.start_).hole_id = h

dynamic_end_node(nodes, edges) ==
    {EndRow(p[1], p[2]) : p \in {q \in nodes \X Holes :
        /\ Neighbour(q[1].hole_id, q[2])
        /\ ~HasEdgeToward(nodes, edges, q[1], q[2])}}


(* ------------------------------ inputs -------------------------------- *)

Feature(h, f, t) == [hole_id |-> h, from_ |-> f, to_ |-> t]

\* a selection of two intervals at the same depth on neighbouring holes,
\* and a selection of one of them
GraphFeatureLists ==
    {<<Feature("h0", 40, 41), Feature("h1", 40, 41)>>, <<Feature("h0", 40, 41)>>}

\* intervals for parent resolution: two holes, two depths
NodeFeatures ==
    {Feature("h0", 50, 51), Feature("h1", 10, 11), Feature("h1", 50, 51)}

\* intervals of different lengths for the offset test
OffsetFeatures ==
    {Feature("h0", 30, 31), Feature("h1", 20, 35), Feature("h1", 29, 31),
     Feature("h3", 20, 31)}

\* the node lists of the edge tests: A on h0, B and C on h1; D on h0, E on h1
reference_nodes == <<Feature("h0", 20, 21), Feature("h1", 10, 11), Feature("h1", 40, 41)>>

child_nodes == <<Feature("h0", 40, 41), Feature("h1", 50, 51)>>

CorrelationAngles == {5, 10, 20}

ParentCorrelationAngles == {5, 10}

(* --------------------------- the operations --------------------------- *)

Call(op, g) ==
    [op |-> op, g |-> g, typ |-> NULL, refs |-> {}, ok |-> TRUE, ret |-> FALSE,
     rows |-> <<>>, ids |-> <<>>, angle |-> 0, pre |-> {}, gone |-> {},
     gone_nodes |-> 0, gone_edges |-> 0]

\* the tables of graphs, nodes and edges, for the methods that work elsewhere
UnchangedGraphTables ==
    UNCHANGED <<graph, graph_relationship, node, edge, end_node, metadata,
                node_id_seq, created>>

UnchangedTables ==
    UNCHANGED <<graph, graph_relationship, node, edge, end_node, metadata, node_id_seq, others>>

Init ==
    /\ graph = <<>>
    /\ graph_relationship = {}
    /\ node = {}
    /\ edge = {}
    /\ end_node = {}
    /\ metadata = [correlation_angle |-> 5, parent_correlation_angle |-> 5]
    /\ node_id_seq = 1
    /\ created = [g \in Graphs |-> 0]
    /\ lastOp = Call("init", NULL)
    /\ collar = {}
    /\ resistivity = {}
    /\ section = {}
    /\ named_section = {}
    /\ pg_database = {ProjectName}
    /\ schema = BaseSchema
    /\ files = {}
    /\ db_made = {ProjectName}
    /\ cell = {}
    /\ hole_nodes = {}
    /\ cells = {}
    /\ HAVE_SIMILOG = TRUE
    /\ albion_similog = "installed"
    /\ famsa = "exit 0"
    /\ menu = {}
    /\ pg_stat_activity = {}
    /\ current_graph = [items |-> <<>>, index |-> 0]
    /\ added_types = [g \in Graphs |-> {}]
    /\ spin_box = [box \in SpinBoxes |-> IF box \in MaximumBoxes THEN SpinMaximum ELSE SpinMinimum]
    /\ valueChanged = <<>>

get_existing_graphs ==
    /\ lastOp' = [Call("get_existing_graphs", NULL) EXCEPT
                    !.rows = [i \in 1..Len(graph) |-> graph[i].id]]
    /\ UnchangedTables
    /\ UNCHANGED created

\* variant: the DELETE has lost its WHERE clause
new_graph_delete_all(graph_id, references) ==
    LET raises == \E parent \in references : parent # graph_id
        call == [Call("new_graph", graph_id) EXCEPT
                    !.refs = references, !.ok = ~raises,
                    !.pre = IF graph_id \in GraphIds(graph)
                            THEN {graph_id} \cup ({GraphType(graph, graph_id)} \ {NULL})
                            ELSE {},
                    !.gone_nodes = Cardinality(node)]
    IN /\ lastOp' = call
       /\ IF raises
          THEN UnchangedTables /\ UNCHANGED created
          ELSE /\ graph' = <<[id |-> graph_id, graph_type |-> NULL]>>
               /\ graph_relationship' = {<<parent, graph_id>> : parent \in references}
               /\ node' = {}
               /\ edge' = {}
               /\ end_node' = {}
               /\ created' = [created EXCEPT ![graph_id] = IF @ = 0 THEN 1 ELSE 2]
               /\ UNCHANGED <<metadata, node_id_seq, others>>

\* variant: no DELETE, and an INSERT that skips an existing id
new_graph_keep_existing(graph_id, references) ==
    LET raises == \E parent \in references : parent \notin GraphIds(graph) \cup {graph_id}
        call == [Call("new_graph", graph_id) EXCEPT
                    !.refs = references, !.ok = ~raises,
                    !.pre = IF graph_id \in GraphIds(graph)
                            THEN {graph_id} \cup ({GraphType(graph, graph_id)} \ {NULL})
                            ELSE {},
                    !.gone_nodes = 0]
    IN /\ lastOp' = call
       /\ IF raises
          THEN UnchangedTables /\ UNCHANGED created
          ELSE /\ graph' = IF graph_id \in GraphIds(graph) THEN graph
                           ELSE Append(graph, [id |-> graph_id, graph_type |-> NULL])
               /\ graph_relationship' =
                    graph_relationship \cup {<<parent, graph_id>> : parent \in references}
               /\ created' = [created EXCEPT ![graph_id] = IF @ = 0 THEN 1 ELSE 2]
               /\ UNCHANGED <<node, edge, end_node, metadata, node_id_seq, others>>

\* variant: the connection is in autocommit, the DELETE stays when an
\* INSERT fails
new_graph_autocommit(graph_id, references) ==
    LET deleted == DeleteGraphRows(graph, graph_id)
        nodes_kept == ParentsKept(node \ NodesOfGraph(node, graph_id))
        raises == \E parent \in references : parent \notin GraphIds(deleted) \cup {graph_id}
    IN /\ lastOp' = [Call("new_graph", graph_id) EXCEPT
                        !.refs = references, !.ok = ~raises,
                        !.pre = IF graph_id \in GraphIds(graph)
                                THEN {graph_id} \cup ({GraphType(graph, graph_id)} \ {NULL})
                                ELSE {},
                        !.gone_nodes = Cardinality(NodesOfGraph(node, graph_id)),
                        !.gone_edges = Cardinality(edge \ EdgesKept(edge, nodes_kept, graph_id))]
       /\ graph' = Append(deleted, [id |-> graph_id, graph_type |-> NULL])
       /\ graph_relationship' =
            DeleteRelationshipRows(graph_relationship, graph_id)
            \cup {<<parent, graph_id>> : parent \in references \cap (GraphIds(deleted) \cup {graph_id})}
       /\ node' = nodes_kept
       /\ edge' = EdgesKept(edge, nodes_kept, graph_id)
       /\ end_node' = EndNodesKept(end_node, nodes_kept, graph_id)
       /\ created' = [created EXCEPT ![graph_id] = IF @ = 0 THEN 1 ELSE 2]
       /\ UNCHANGED <<metadata, node_id_seq, others>>

\* the statements of new_graph; what else stays as it was is the caller's
new_graph_statements(graph_id, references) ==
    LET deleted == DeleteGraphRows(graph, graph_id)
        nodes_kept == ParentsKept(node \ NodesOfGraph(node, graph_id))
        raises == \/ graph_id \in GraphIds(deleted)
                  \/ \E parent \in references : parent \notin GraphIds(deleted) \cup {graph_id}
        call == [Call("new_graph", graph_id) EXCEPT
                    !.refs = references, !.ok = ~raises,
                    !.pre = IF graph_id \in GraphIds(graph)
                            THEN {graph_id} \cup ({GraphType(graph, graph_id)} \ {NULL})
                            ELSE {},
                    !.gone_nodes = Cardinality(NodesOfGraph(node, graph_id)),
                    !.gone_edges = Cardinality(edge \ EdgesKept(edge, nodes_kept, graph_id))]
    IN /\ lastOp' = call
       /\ IF raises
          THEN UnchangedGraphTables
          ELSE /\ graph' = Append(deleted, [id |-> graph_id, graph_type |-> NULL])
               /\ graph_relationship' =
                    DeleteRelationshipRows(graph_relationship, graph_id)
                    \cup {<<parent, graph_id>> : parent \in references}
               /\ node' = nodes_kept
               /\ edge' = EdgesKept(edge, nodes_kept, graph_id)
               /\ end_node' = EndNodesKept(end_node, nodes_kept, graph_id)
               /\ created' = [created EXCEPT ![graph_id] = IF @ = 0 THEN 1 ELSE 2]
               /\ UNCHANGED <<metadata, node_id_seq>>

new_graph(graph_id, references) ==
    new_graph_statements(graph_id, references) /\ UNCHANGED others

\* variant: the DELETE has lost its WHERE clause
delete_graph_all(graph_id) ==
    /\ lastOp' = [Call("delete_graph", graph_id) EXCEPT
                    !.pre = {r[2] : r \in {q \in graph_relationship :
                                             q[1] = graph_id /\ q[2] # graph_id}},
                    !.gone_nodes = Cardinality(node)]
    /\ graph' = <<>>
    /\ graph_relationship' = {}
    /\ node' = {}
    /\ edge' = {}
    /\ end_node' = {}
    /\ created' = [created EXCEPT ![graph_id] = 0]
    /\ UNCHANGED <<metadata, node_id_seq, others>>

\* the statements of delete_graph; what else stays as it was is the caller's
delete_graph_statements(graph_id) ==
    LET nodes_kept == ParentsKept(node \ NodesOfGraph(node, graph_id))
    IN /\ lastOp' = [Call("delete_graph", graph_id) EXCEPT
                        !.pre = {r[2] : r \in {q \in graph_relationship :
                                                 q[1] = graph_id /\ q[2] # graph_id}},
                        !.gone_nodes = Cardinality(NodesOfGraph(node, graph_id)),
                        !.gone_edges = Cardinality(edge \ EdgesKept(edge, nodes_kept, graph_id))]
       /\ graph' = DeleteGraphRows(graph, graph_id)
       /\ graph_relationship' = DeleteRelationshipRows(graph_relationship, graph_id)
       /\ node' = nodes_kept
       /\ edge' = EdgesKept(edge, nodes_kept, graph_id)
       /\ end_node' = EndNodesKept(end_node, nodes_kept, graph_id)
       /\ created' = [created EXCEPT ![graph_id] = 0]
       /\ UNCHANGED <<metadata, node_id_seq>>

delete_graph(graph_id) ==
    delete_graph_statements(graph_id) /\ UNCHANGED others

\* variant: the UPDATE runs whatever the stored type is
check_graph_type_overwrite(graph_id, graph_type) ==
    IF graph_id \notin GraphIds(graph)
    THEN /\ lastOp' = [Call("check_graph_type", graph_id) EXCEPT
                          !.typ = graph_type, !.ok = FALSE]
         /\ UnchangedTables
         /\ UNCHANGED created
    ELSE LET ret == GraphType(graph, graph_id)
         IN /\ lastOp' = [Call("check_graph_type", graph_id) EXCEPT
                             !.typ = graph_type,
                             !.ret = TRUE,
                             !.pre = IF ret = NULL THEN {} ELSE {ret}]
            /\ graph' = [i \in 1..Len(graph) |->
                            IF graph[i].id = graph_id
                            THEN [graph[i] EXCEPT !.graph_type = graph_type]
                            ELSE graph[i]]
            /\ UNCHANGED <<graph_relationship, node, edge, end_node, metadata,
                           node_id_seq, others, created>>

\* the statements of check_graph_type; what else stays as it was is the caller's
check_graph_type_statements(graph_id, graph_type) ==
    IF graph_id \notin GraphIds(graph)
    THEN /\ lastOp' = [Call("check_graph_type", graph_id) EXCEPT
                          !.typ = graph_type, !.ok = FALSE]
         /\ UnchangedGraphTables
    ELSE LET ret == GraphType(graph, graph_id)
         IN /\ lastOp' = [Call("check_graph_type", graph_id) EXCEPT
                             !.typ = graph_type,
                             !.ret = IF ret = NULL THEN TRUE ELSE ret = graph_type,
                             !.pre = IF ret = NULL THEN {} ELSE {ret}]
            /\ graph' = IF ret = NULL
                        THEN [i \in 1..Len(graph) |->
                                IF graph[i].id = graph_id
                                THEN [graph[i] EXCEPT !.graph_type = graph_type]
                                ELSE graph[i]]
                        ELSE graph
            /\ UNCHANGED <<graph_relationship, node, edge, end_node, metadata,
                           node_id_seq, created>>

check_graph_type(graph_id, graph_type) ==
    check_graph_type_statements(graph_id, graph_type) /\ UNCHANGED others

\* variant: the rows go to the table under the view, past its triggers
add_to_graph_node_raw(graph_id, features) ==
    /\ IF graph_id \notin GraphIds(graph)
       THEN /\ lastOp' = [Call("add_to_graph_node", graph_id) EXCEPT !.ok = FALSE]
            /\ UnchangedTables
       ELSE /\ lastOp' = [Call("add_to_graph_node", graph_id) EXCEPT
                            !.ids = [i \in 1..Len(features) |-> node_id_seq + i - 1]]
            /\ node' = InsertNodeRows(node, features, graph_id, node_id_seq)
            /\ node_id_seq' = node_id_seq + Len(features)
            /\ UNCHANGED <<graph, graph_relationship, edge, end_node, metadata, others>>
    /\ UNCHANGED created

\* the statements of add_to_graph_node; what else stays as it was is the caller's
add_to_graph_node_statements(graph_id, features) ==
    /\ IF graph_id \notin GraphIds(graph)
       THEN /\ lastOp' = [Call("add_to_graph_node", graph_id) EXCEPT !.ok = FALSE]
            /\ UNCHANGED <<graph, graph_relationship, node, edge, end_node, metadata,
                          node_id_seq>>
       ELSE /\ lastOp' = [Call("add_to_graph_node", graph_id) EXCEPT
                            !.ids = [i \in 1..Len(features) |-> node_id_seq + i - 1]]
            /\ node' \in ResolveParents(
                            InsertNodeRows(node, features, graph_id, node_id_seq),
                            graph_relationship)
            /\ node_id_seq' = node_id_seq + Len(features)
            /\ UNCHANGED <<graph, graph_relationship, edge, end_node, metadata>>
    /\ UNCHANGED created

add_to_graph_node(graph_id, features) ==
    add_to_graph_node_statements(graph_id, features) /\ UNCHANGED others

\* variant: the references to a deleted node are set to NULL and left so
delete_node_set_null(graph_id, from_) ==
    LET gone == {n \in node : n.graph_id = graph_id /\ n.from_ = from_}
        nodes_kept == ParentsKept(node \ gone)
    IN /\ gone # {}
       /\ lastOp' = [Call("delete_node", graph_id) EXCEPT
                        !.angle = from_, !.gone = {Feature(n.hole_id, n.from_, n.to_) : n \in gone}]
       /\ node' = nodes_kept
       /\ edge' = EdgesKept(edge, nodes_kept, NULL)
       /\ end_node' = EndNodesKept(end_node, nodes_kept, NULL)
       /\ UNCHANGED <<graph, graph_relationship, metadata, node_id_seq, others, created>>

\* DELETE FROM albion.node WHERE graph_id=.. AND from_=..
delete_node(graph_id, from_) ==
    LET gone == {n \in node : n.graph_id = graph_id /\ n.from_ = from_}
        nodes_kept == ParentsKept(node \ gone)
    IN /\ gone # {}
       /\ lastOp' = [Call("delete_node", graph_id) EXCEPT
                        !.angle = from_, !.gone = {Feature(n.hole_id, n.from_, n.to_) : n \in gone},
                        !.gone_edges = Cardinality(edge \ EdgesKept(edge, nodes_kept, NULL))]
       /\ node' \in ResolveParents(nodes_kept, graph_relationship)
       /\ edge' = EdgesKept(edge, nodes_kept, NULL)
       /\ end_node' = EndNodesKept(end_node, nodes_kept, NULL)
       /\ UNCHANGED <<graph, graph_relationship, metadata, node_id_seq, others, created>>

\* UPDATE albion.metadata SET correlation_angle=..
set_correlation_angle(a) ==
    /\ metadata' = [metadata EXCEPT !.correlation_angle = a]
    /\ lastOp' = [Call("set_correlation_angle", NULL) EXCEPT
                    !.angle = a, !.pre = {metadata.correlation_angle}]
    /\ UNCHANGED <<graph, graph_relationship, node, edge, end_node, node_id_seq, others, created>>

\* UPDATE albion.metadata SET parent_correlation_angle=..
set_parent_correlation_angle(a) ==
    /\ metadata' = [metadata EXCEPT !.parent_correlation_angle = a]
    /\ lastOp' = [Call("set_parent_correlation_angle", NULL) EXCEPT !.angle = a]
    /\ UNCHANGED <<graph, graph_relationship, node, edge, end_node, node_id_seq, others, created>>

\* SELECT albion.valid_offset(geom of node id1, geom of node id2, angle)
select_valid_offset(id1, id2, angle) ==
    /\ id1 \in NodeIds(node)
    /\ id2 \in NodeIds(node)
    /\ lastOp' = [Call("valid_offset", NULL) EXCEPT
                    !.ids = <<id1, id2>>, !.angle = angle,
                    !.ret = valid_offset(NodeById(node, id1), NodeById(node, id2), angle)]
    /\ UnchangedTables
    /\ UNCHANGED created

\* variant: the INSERT .. SELECT without its WHERE graph_id clause
accept_possible_edge_any_graph(graph_id) ==
    /\ edge' = edge \cup possible_edge(node, graph_relationship, metadata)
    /\ lastOp' = [Call("accept_possible_edge", graph_id) EXCEPT !.pre = edge]
    /\ UNCHANGED <<graph, graph_relationship, node, end_node, metadata, node_id_seq, others, created>>

accept_possible_edge(graph_id) ==
    /\ edge' = edge \cup {pe \in possible_edge(node, graph_relationship, metadata) :
                            pe.graph_id = graph_id}
    /\ lastOp' = [Call("accept_possible_edge", graph_id) EXCEPT !.pre = edge]
    /\ UNCHANGED <<graph, graph_relationship, node, end_node, metadata, node_id_seq, others, created>>

create_terminations(graph_id) ==
    /\ end_node' = end_node \cup {t \in dynamic_end_node(node, edge) :
                                    t.graph_id = graph_id}
    /\ lastOp' = [Call("create_terminations", graph_id) EXCEPT
                    !.pre = IF lastOp.op = "accept_possible_edge" /\ lastOp.g = graph_id
                            THEN {graph_id} ELSE {}]
    /\ UNCHANGED <<graph, graph_relationship, node, edge, metadata, node_id_seq, others, created>>

\* room left in the node id sequence for a list of features
Room(features, max) == node_id_seq + Len(features) - 1 <= max

(* graphs, their types and what a graph deletion takes with it *)
Next ==
    \/ get_existing_graphs
    \/ \E g \in Graphs, refs \in SUBSET Graphs : new_graph(g, refs)
    \/ \E g \in Graphs : delete_graph(g)
    \/ \E g \in Graphs, t \in GraphTypes : check_graph_type(g, t)
    \/ \E g \in Graphs, fs \in GraphFeatureLists :
            Room(fs, MaxGraphNodes) /\ add_to_graph_node(g, fs)
    \/ \E g \in Graphs : accept_possible_edge(g)

Spec == Init /\ [][Next]_vars

(* nodes and their parents; ref is the parent graph, of itself or of sub *)
NextNode ==
    \/ \E g \in Graphs, refs \in {{}, {"ref"}} : new_graph(g, refs)
    \/ \E g \in Graphs, f \in NodeFeatures :
            Room(<<f>>, MaxNodes) /\ add_to_graph_node(g, <<f>>)
    \/ \E g \in Graphs, f \in NodeFeatures : delete_node(g, f.from_)

SpecNode == Init /\ [][NextNode]_vars

(* the offset test *)
NextOffset ==
    \/ \E g \in Graphs : new_graph(g, {})
    \/ \E g \in Graphs, f \in OffsetFeatures :
            Room(<<f>>, MaxOffsetNodes) /\ add_to_graph_node(g, <<f>>)
    \/ \E id1 \in 1..MaxOffsetNodes, id2 \in 1..MaxOffsetNodes, a \in Angles :
            select_valid_offset(id1, id2, a)

SpecOffset == Init /\ [][NextOffset]_vars

(* possible edges of parent and child graphs; ref is the parent graph *)
NextEdge ==
    \/ \E g \in Graphs, refs \in {{}, {"ref"}} : new_graph(g, refs)
    \/ \E g \in Graphs : delete_graph(g)
    \/ \E g \in Graphs, fs \in {reference_nodes, child_nodes} :
            Room(fs, MaxEdgeNodes) /\ add_to_graph_node(g, fs)
    \/ \E a \in CorrelationAngles : set_correlation_angle(a)
    \/ \E a \in ParentCorrelationAngles : set_parent_correlation_angle(a)

SpecEdge == Init /\ [][NextEdge]_vars

(* accepted edges and terminations *)
NextEnd ==
    \/ \E g \in Graphs, refs \in SUBSET Graphs : new_graph(g, refs)
    \/ \E g \in Graphs, fs \in {reference_nodes, child_nodes} :
            Room(fs, MaxEndNodes) /\ add_to_graph_node(g, fs)
    \/ \E a \in CorrelationAngles : set_correlation_angle(a)
    \/ \E g \in Graphs : accept_possible_edge(g)
    \/ \E g \in Graphs : create_terminations(g)

SpecEnd == Init /\ [][NextEnd]_vars

(* ------------------------------ sections ------------------------------ *)

\* SQL NULL of a geometry column
NoGeom == -1

\* collar sets of an imported data set, as points of a plane; the second is
\* more than twice as wide as it is high
CollarSets == {{[x |-> 0, y |-> 0], [x |-> 4, y |-> 2]},
               {[x |-> 0, y |-> 0], [x |-> 10, y |-> 2]}}

\* vertical exaggerations a section view is asked for
Scales == {1, 2}

\* a section line is known by its distance to the section's anchor; a new
\* section lies on its anchor
Lines == 1..MaxLines

AtAnchor == 0

\* f"WE x{z_scale}", f"SN x{z_scale}"
SectionId(direction, z_scale) == direction \o " x" \o ToString(z_scale)

SectionIds == {SectionId(d, z) : d \in {"WE", "SN"}, z \in Scales}

\* the text of the section combo box: a section id, or nothing
CurrentSections == {""} \cup SectionIds

Max(S) == CHOOSE x \in S : \A y \in S : y <= x

\* the two anchors computed from the extent of albion.collar with no
\* rotation, as <<x1, y1, x2, y2>> in twentieths of a map unit
Anchors(collars) ==
    LET xmin == Min({c.x : c \in collars})
        xmax == Max({c.x : c \in collars})
        ymin == Min({c.y : c \in collars})
        ymax == Max({c.y : c \in collars})
        cx == 10 * (xmin + xmax)
        cy == 10 * (ymin + ymax)
        distx == xmax - xmin
        disty == ymax - ymin
        \* elong > 2.0, a zero extent counting as 1e-9
        f10 == IF distx > 2 * disty \/ disty > 2 * distx THEN 20 ELSE 15
    IN [WE |-> <<cx - f10 * distx, cy - 12 * disty, cx + f10 * distx, cy - 12 * disty>>,
        SN |-> <<cx + 12 * distx, cy - f10 * disty, cx + 12 * distx, cy + f10 * disty>>]

\* INSERT INTO albion.section(id, anchor, scale) .. ON CONFLICT (id) DO
\* UPDATE SET anchor, scale
UpsertSection(sections, id, anchor, scale) ==
    IF \E r \in sections : r.id = id
    THEN {IF r.id = id THEN [r EXCEPT !.anchor = anchor, !.scale = scale] ELSE r :
            r \in sections}
    ELSE sections \cup {[id |-> id, anchor |-> anchor, scale |-> scale, geom |-> AtAnchor]}

\* variant: a plain INSERT, which the primary key refuses for an id it has
InsertSection(sections, id, anchor, scale) ==
    sections \cup {[id |-> id, anchor |-> anchor, scale |-> scale, geom |-> AtAnchor]}

\* albion.next_section(id): the nearest named section of the section beyond
\* the line it shows, NULL when there is none
albion_next_section(sections, named, id) ==
    LET beyond == {n.geom : n \in {m \in named : m.section = id
                        /\ \E r \in sections : r.id = id /\ m.geom > r.geom}}
    IN IF beyond = {} THEN NoGeom ELSE Min(beyond)

\* albion.previous_section(id): the nearest one before the line it shows
albion_previous_section(sections, named, id) ==
    LET before == {n.geom : n \in {m \in named : m.section = id
                        /\ \E r \in sections : r.id = id /\ m.geom < r.geom}}
    IN IF before = {} THEN NoGeom ELSE Max(before)

COALESCE(a, b) == IF a # NoGeom THEN a ELSE b

\* SELECT COUNT(1) FROM albion.named_section, > 0
has_section == named_section # {}

\* the rest of the state, for the methods that work on sections
OutsideSections ==
    UnchangedGraphTables /\ UNCHANGED <<resistivity, server, triangulation, desktop, pg_stat_activity, plugin, similog>>

\* the collars and the resistivity measures of a data set arrive in a
\* project that has none
import_data(collars, rows) ==
    /\ collar = {}
    /\ collar' = collars
    /\ resistivity' = rows
    /\ lastOp' = Call("import_data", NULL)
    /\ UNCHANGED <<section, named_section, server, triangulation, desktop, pg_stat_activity, plugin, similog>>
    /\ UnchangedGraphTables

\* variant: INSERT without ON CONFLICT
create_section_view_0_90_insert(z_scale) ==
    LET raises == \/ collar = {}
                  \/ \E r \in section : r.id = SectionId("WE", z_scale)
                  \/ \E r \in section : r.id = SectionId("SN", z_scale)
    IN /\ lastOp' = [Call("create_section_view_0_90", NULL) EXCEPT
                        !.angle = z_scale, !.ok = ~raises]
       /\ section' = IF raises THEN section
                     ELSE InsertSection(
                            InsertSection(section, SectionId("WE", z_scale),
                                          Anchors(collar).WE, z_scale),
                            SectionId("SN", z_scale), Anchors(collar).SN, z_scale)
       /\ UNCHANGED <<collar, named_section>>
       /\ OutsideSections

create_section_view_0_90(z_scale) ==
    LET raises == collar = {}
    IN /\ lastOp' = [Call("create_section_view_0_90", NULL) EXCEPT
                        !.angle = z_scale, !.ok = ~raises]
       /\ section' = IF raises THEN section
                     ELSE UpsertSection(
                            UpsertSection(section, SectionId("WE", z_scale),
                                          Anchors(collar).WE, z_scale),
                            SectionId("SN", z_scale), Anchors(collar).SN, z_scale)
       /\ UNCHANGED <<collar, named_section>>
       /\ OutsideSections

add_named_section(section_id, geom) ==
    /\ named_section' = named_section \cup {[section |-> section_id, geom |-> geom]}
    /\ lastOp' = [Call("add_named_section", section_id) EXCEPT !.angle = geom]
    /\ UNCHANGED <<collar, section>>
    /\ OutsideSections

\* variant: the UPDATE has lost its WHERE clause
next_section_all_rows(section_) ==
    /\ lastOp' = [Call("next_section", section_) EXCEPT
                    !.pre = {r.geom : r \in {q \in section : q.id = section_}}]
    /\ section' = IF section_ = "" THEN section
                  ELSE {[r EXCEPT !.geom =
                            COALESCE(albion_next_section(section, named_section, section_), @)] :
                        r \in section}
    /\ UNCHANGED <<collar, named_section>>
    /\ OutsideSections

next_section(section_) ==
    /\ lastOp' = [Call("next_section", section_) EXCEPT
                    !.pre = {r.geom : r \in {q \in section : q.id = section_}}]
    /\ section' = IF section_ = "" THEN section
                  ELSE {IF r.id = section_
                        THEN [r EXCEPT !.geom =
                                COALESCE(albion_next_section(section, named_section, section_), @)]
                        ELSE r : r \in section}
    /\ UNCHANGED <<collar, named_section>>
    /\ OutsideSections

previous_section(section_) ==
    /\ lastOp' = [Call("previous_section", section_) EXCEPT
                    !.pre = {r.geom : r \in {q \in section : q.id = section_}}]
    /\ section' = IF section_ = "" THEN section
                  ELSE {IF r.id = section_
                        THEN [r EXCEPT !.geom =
                                COALESCE(albion_previous_section(section, named_section, section_), @)]
                        ELSE r : r \in section}
    /\ UNCHANGED <<collar, named_section>>
    /\ OutsideSections

(* section views, their named sections and the walk through them *)
NextSection ==
    \/ \E cs \in CollarSets : import_data(cs, ResistivityRows)
    \/ \E z \in Scales : create_section_view_0_90(z)
    \/ \E r \in section, g \in Lines :
            r.scale = 1 /\ add_named_section(r.id, g)
    \/ \E s \in CurrentSections : next_section(s)
    \/ \E s \in CurrentSections : previous_section(s)

SpecSection == Init /\ [][NextSection]_vars

(* ------------------------------- update ------------------------------- *)

\* the files of the updates directory, in the order update() runs them,
\* with what they install: statements that create an object, drop one
\* (without IF EXISTS) or create or replace one
sql_files ==
    <<[name |-> "_formation_section_edit.sql", required |-> TRUE,
       statements |-> <<[kind |-> "drop", obj |-> "formation_section_edit"],
                        [kind |-> "create", obj |-> "formation_section_edit"]>>],
      [name |-> "_formation_from_polygon.sql", required |-> FALSE,
       statements |-> <<[kind |-> "replace", obj |-> "formation_from_polygon"]>>],
      [name |-> "_section_rotation.sql", required |-> TRUE,
       statements |-> <<[kind |-> "create", obj |-> "section_rotation_deg"]>>]>>

FileNames == {sql_files[i].name : i \in 1..Len(sql_files)}

\* the required files among them
RequiredFiles == {sql_files[i].name : i \in {k \in 1..Len(sql_files) : sql_files[k].required}}

\* no error
NoError == [pgcode |-> "00000", msg |-> ""]

DUPLICATE_SQLSTATES == {"42710", "42P06", "42P07", "42701", "42723", "42P03", "42P04"}

UNDEFINED_SQLSTATES == {"42704", "42P01", "42703", "42883", "3F000"}

\* errors a statement can meet whatever the schema holds: a syntax error, a
\* refused permission, a database that is missing (a code of neither list)
OtherErrors == {[pgcode |-> "42601", msg |-> "syntax error"],
                [pgcode |-> "42501", msg |-> "permission denied"],
                [pgcode |-> "3D000", msg |-> "does not exist"]}

\* the fallback on the message finds these texts in it
_is_ignorable_sql_error(err) ==
    \/ err.pgcode \in DUPLICATE_SQLSTATES \cup UNDEFINED_SQLSTATES
    \/ err.msg \in {"already exists", "ya existe", "does not exist", "no existe"}

\* a fault of the run: statement j of file i meets err; none when i = 0
NoFault == [i |-> 0, j |-> 0, err |-> NoError]

Faults == {NoFault} \cup
          UNION {{[i |-> i, j |-> j, err |-> e] :
                        j \in 1..Len(sql_files[i].statements), e \in OtherErrors} :
                    i \in 1..Len(sql_files)}

\* the objects the files are about
UpdateObjects ==
    UNION {{sql_files[i].statements[j].obj : j \in 1..Len(sql_files[i].statements)} :
            i \in 1..Len(sql_files)}

\* the error the server gives for a statement on a schema
ErrorOf(st, sch) ==
    IF st.kind = "create" /\ st.obj \in sch
    THEN [pgcode |-> "42710", msg |-> "already exists"]
    ELSE IF st.kind = "drop" /\ st.obj \notin sch
    THEN [pgcode |-> "42704", msg |-> "does not exist"]
    ELSE NoError

Effect(st, sch) == IF st.kind = "drop" THEN sch \ {st.obj} ELSE sch \cup {st.obj}

\* variant: an error is never skipped
RECURSIVE RunStatements_strict(_, _, _, _, _)
RunStatements_strict(sts, j, i, sch, fault) ==
    IF j > Len(sts) THEN [schema |-> sch, raised |-> FALSE]
    ELSE LET err == IF fault.i = i /\ fault.j = j THEN fault.err ELSE ErrorOf(sts[j], sch)
         IN IF err = NoError
            THEN RunStatements_strict(sts, j + 1, i, Effect(sts[j], sch), fault)
            ELSE [schema |-> sch, raised |-> TRUE]

\* the statements of one file from the j-th on, each under its savepoint:
\* a statement that fails is undone alone, and skipped if the error is
\* ignorable
RECURSIVE RunStatements(_, _, _, _, _)
RunStatements(sts, j, i, sch, fault) ==
    IF j > Len(sts) THEN [schema |-> sch, raised |-> FALSE]
    ELSE LET err == IF fault.i = i /\ fault.j = j THEN fault.err ELSE ErrorOf(sts[j], sch)
         IN IF err = NoError
            THEN RunStatements(sts, j + 1, i, Effect(sts[j], sch), fault)
            ELSE IF _is_ignorable_sql_error(err)
            THEN RunStatements(sts, j + 1, i, sch, fault)
            ELSE [schema |-> sch, raised |-> TRUE]

\* the files from the i-th on; present are the files the directory holds
RECURSIVE RunFiles(_, _, _, _)
RunFiles(i, sch, present, fault) ==
    IF i > Len(sql_files) THEN [schema |-> sch, raised |-> FALSE]
    ELSE IF sql_files[i].name \notin present
    THEN IF sql_files[i].required
         THEN [schema |-> sch, raised |-> TRUE]
         ELSE RunFiles(i + 1, sch, present, fault)
    ELSE LET done == RunStatements(sql_files[i].statements, 1, i, sch, fault)
         IN IF done.raised THEN done
            ELSE RunFiles(i + 1, done.schema, present, fault)

\* variant: the changes made before the error are committed
Updated_commit_on_error(sch, present, fault) ==
    IF "albion" \notin sch THEN [schema |-> sch, raised |-> TRUE, typ |-> "UndefinedTable"]
    ELSE LET run == RunFiles(1, sch, present, fault)
         IN [schema |-> run.schema, raised |-> run.raised,
             typ |-> IF run.raised THEN "RuntimeError" ELSE NULL]

\* what update() leaves of a schema: the outcome of the run when it ends,
\* the schema as it was when it raises (the with block rolls back)
Updated(sch, present, fault) ==
    IF "albion" \notin sch THEN [schema |-> sch, raised |-> TRUE, typ |-> "UndefinedTable"]
    ELSE LET run == RunFiles(1, sch, present, fault)
         IN IF run.raised
            THEN [schema |-> sch, raised |-> TRUE, typ |-> "RuntimeError"]
            ELSE [schema |-> run.schema, raised |-> FALSE, typ |-> NULL]

\* the rest of the state, for the methods that work on the schema
OutsideSchema ==
    /\ UnchangedGraphTables
    /\ UNCHANGED <<collar, resistivity, section, named_section, pg_database, files, db_made,
                   triangulation, desktop, pg_stat_activity, plugin, similog>>

update(present, fault) ==
    /\ ProjectName \in pg_database
    /\ LET u == Updated(schema, present, fault)
       IN /\ schema' = u.schema
          /\ lastOp' = [Call("update", NULL) EXCEPT
                          !.ok = ~u.raised, !.typ = u.typ, !.refs = present,
                          !.pre = schema, !.rows = <<fault>>]
    /\ OutsideSchema

\* DROP .. of an object, by hand or by a script
drop_object(obj) ==
    /\ obj \in schema
    /\ obj \notin BaseSchema
    /\ schema' = schema \ {obj}
    /\ lastOp' = Call("drop_object", obj)
    /\ OutsideSchema

(* the schema updates *)
NextUpdate ==
    \/ \E present \in SUBSET FileNames, fault \in Faults : update(present, fault)
    \/ \E obj \in UpdateObjects : drop_object(obj)

SpecUpdate == Init /\ [][NextUpdate]_vars

(* ------------------------------ databases ----------------------------- *)

\* paths a project is imported from; it is exported to the first
Paths == {"niger.sql", "old.sql"}

\* what pg_dump writes: the tables and the schema of the project database
TablesNow ==
    [graph |-> graph, graph_relationship |-> graph_relationship, node |-> node,
     edge |-> edge, end_node |-> end_node, metadata |-> metadata,
     node_id_seq |-> node_id_seq, collar |-> collar, resistivity |-> resistivity,
     section |-> section, named_section |-> named_section, schema |-> schema,
     cell |-> cell, hole_nodes |-> hole_nodes, cells |-> cells]

\* a database that CREATE DATABASE has just made
EmptyDatabase ==
    [graph |-> <<>>, graph_relationship |-> {}, node |-> {}, edge |-> {},
     end_node |-> {}, metadata |-> [correlation_angle |-> 5, parent_correlation_angle |-> 5],
     node_id_seq |-> 1, collar |-> {}, resistivity |-> {}, section |-> {},
     named_section |-> {}, schema |-> {}, cell |-> {}, hole_nodes |-> {}, cells |-> {}]

\* the project database holds d
TablesBecome(d) ==
    /\ graph' = d.graph
    /\ graph_relationship' = d.graph_relationship
    /\ node' = d.node
    /\ edge' = d.edge
    /\ end_node' = d.end_node
    /\ metadata' = d.metadata
    /\ node_id_seq' = d.node_id_seq
    /\ collar' = d.collar
    /\ resistivity' = d.resistivity
    /\ section' = d.section
    /\ named_section' = d.named_section
    /\ schema' = d.schema
    /\ cell' = d.cell
    /\ hole_nodes' = d.hole_nodes
    /\ cells' = d.cells
    /\ created' = [g \in Graphs |->
                    IF g \notin GraphIds(d.graph) THEN 0
                    ELSE IF d.graph = graph THEN created[g] ELSE 1]

\* id LIKE 'WE x%', id LIKE 'SN x%'
Like(id, direction) == \E z \in Scales : id = SectionId(direction, z)

\* recenter_default_sections: the anchors of all WE and SN sections are
\* computed again from the collars, if there are any
Recentred(d) ==
    IF d.collar = {} THEN d
    ELSE [d EXCEPT !.section =
            {[r EXCEPT !.anchor = IF Like(r.id, "WE") THEN Anchors(d.collar).WE
                                  ELSE IF Like(r.id, "SN") THEN Anchors(d.collar).SN
                                  ELSE @] : r \in d.section}]

\* create_sections: the anchors are recentred if metadata has its rotation
create_sections(d) == IF "section_rotation_deg" \in d.schema THEN Recentred(d) ELSE d

\* variant: the dump is restored without the rows of the measure tables
Restored_without_rows(files_, filename) ==
    IF \E f \in files_ : f.path = filename
    THEN [(CHOOSE f \in files_ : f.path = filename).dump EXCEPT !.resistivity = {}]
    ELSE EmptyDatabase

\* psql -f filename on a database just made; a file that is missing leaves
\* the database empty
Restored(files_, filename) ==
    IF \E f \in files_ : f.path = filename
    THEN (CHOOSE f \in files_ : f.path = filename).dump
    ELSE EmptyDatabase

\* SELECT pg_terminate_backend(pid) FROM pg_stat_activity WHERE datname=%s
Terminated(datname) == IF datname = ProjectName THEN {} ELSE pg_stat_activity

\* Project.exists
exists(project_name) ==
    /\ lastOp' = [Call("exists", project_name) EXCEPT !.ret = project_name \in pg_database]
    /\ UNCHANGED server
    /\ UNCHANGED <<desktop, plugin, similog>>
    /\ pg_stat_activity' = Terminated(project_name)
    /\ TablesBecome(TablesNow)

\* variant: the assertion is compiled out
delete_unchecked(project_name) ==
    /\ lastOp' = [Call("delete", project_name) EXCEPT !.refs = pg_database]
    /\ pg_database' = pg_database \ {project_name}
    /\ db_made' = db_made \ {project_name}
    /\ UNCHANGED <<desktop, plugin, similog>>
    /\ pg_stat_activity' = Terminated(project_name)
    /\ TablesBecome(IF project_name = ProjectName THEN EmptyDatabase ELSE TablesNow)
    /\ UNCHANGED files

\* Project.delete
delete(project_name) ==
    LET raises == project_name \notin pg_database
    IN /\ lastOp' = [Call("delete", project_name) EXCEPT
                        !.ok = ~raises, !.refs = pg_database,
                        !.typ = IF raises THEN "AssertionError" ELSE NULL]
       /\ pg_database' = pg_database \ {project_name}
       /\ db_made' = IF raises THEN db_made ELSE db_made \ {project_name}
       /\ UNCHANGED <<desktop, plugin, similog>>
       /\ pg_stat_activity' = Terminated(project_name)
       /\ TablesBecome(IF ~raises /\ project_name = ProjectName
                       THEN EmptyDatabase ELSE TablesNow)
       /\ UNCHANGED files

\* Project.create_db
create_db(project_name) ==
    LET raises == project_name \in pg_database
    IN /\ lastOp' = [Call("create_db", project_name) EXCEPT
                        !.ok = ~raises, !.refs = pg_database,
                        !.typ = IF raises THEN "AssertionError" ELSE NULL]
       /\ pg_database' = pg_database \cup {project_name}
       /\ db_made' = IF raises THEN db_made ELSE db_made \cup {project_name}
       /\ UNCHANGED <<desktop, plugin, similog>>
       /\ pg_stat_activity' = Terminated(project_name)
       /\ TablesBecome(TablesNow)
       /\ UNCHANGED files

\* Project.create: the database, then the albion schema in it
create(project_name) ==
    LET raises == project_name \in pg_database
    IN /\ lastOp' = [Call("create", project_name) EXCEPT
                        !.ok = ~raises, !.refs = pg_database,
                        !.typ = IF raises THEN "AssertionError" ELSE NULL]
       /\ pg_database' = pg_database \cup {project_name}
       /\ db_made' = IF raises THEN db_made ELSE db_made \cup {project_name}
       /\ UNCHANGED <<desktop, plugin, similog>>
       /\ pg_stat_activity' = Terminated(project_name)
       /\ TablesBecome(IF raises THEN TablesNow
                       ELSE [EmptyDatabase EXCEPT !.schema = BaseSchema])
       /\ UNCHANGED files

\* Project.export_project; have_pg_dump is what shutil.which finds
export_project(filename, have_pg_dump) ==
    /\ lastOp' = [Call("export_project", filename) EXCEPT !.ret = have_pg_dump]
    /\ files' = IF have_pg_dump
                THEN {f \in files : f.path # filename}
                        \cup {[path |-> filename, dump |-> TablesNow]}
                ELSE files
    /\ UNCHANGED <<pg_database, db_made>>
    /\ UNCHANGED <<desktop, pg_stat_activity, plugin, similog>>
    /\ TablesBecome(TablesNow)

\* Project.import_project of the project of the tests: create_db, psql -f,
\* update() and create_sections(); present are the files of updates/
import_project(project_name, filename, have_psql, present) ==
    LET exist == project_name \in pg_database
        restored == Restored(files, filename)
        u == Updated(restored.schema, present, NoFault)
        raises == exist \/ ~have_psql \/ u.raised
    IN /\ project_name = ProjectName
       /\ lastOp' = [Call("import_project", project_name) EXCEPT
                        !.ok = ~raises, !.refs = pg_database,
                        !.pre = {filename}, !.ret = have_psql,
                        !.typ = IF exist THEN "AssertionError"
                                ELSE IF ~have_psql THEN "AttributeError"
                                ELSE u.typ]
       /\ pg_database' = pg_database \cup {project_name}
       /\ db_made' = IF exist THEN db_made ELSE db_made \cup {project_name}
       /\ UNCHANGED <<desktop, plugin, similog>>
       /\ pg_stat_activity' = Terminated(project_name)
       /\ TablesBecome(IF exist THEN TablesNow
                       ELSE IF ~have_psql THEN EmptyDatabase
                       ELSE IF u.raised THEN restored
                       ELSE create_sections([restored EXCEPT !.schema = u.schema]))
       /\ UNCHANGED files

(* ---------------------------- triangulation --------------------------- *)

\* data sets added to a project that has holes; with either set of
\* CollarSets the collars stay in convex position
NewCollarSets == {{[x |-> 0, y |-> 4]}, {[x |-> 6, y |-> -2]}, {[x |-> -2, y |-> 2]}}

\* albion.triangulate(): the cells between the collars, a cell having three
\* holes a, b, c; as many as a triangulation of collars in convex position has
Triangles(collars) == 1..Max({0, Cardinality(collars) - 2})

\* SELECT COUNT(1) FROM albion.cell, > 0
has_cell == cell # {}

\* variant: with cells in the project the views are refreshed and the
\* triangulation is left as it is
Triangulated_refresh_only(collars, had_cell, cell_) ==
    [cell |-> IF had_cell THEN cell_ ELSE Triangles(collars),
     hole_nodes |-> collars,
     cells |-> IF had_cell THEN cell_ ELSE Triangles(collars),
     script |-> IF had_cell THEN NULL ELSE "albion_raster.sql"]

\* the transaction of triangulate: SELECT albion.triangulate(), then
\* albion_raster.sql if __has_cell(), which reads through a connection of
\* its own the cells committed before the call, finds none, and the refresh
\* of _albion.hole_nodes and _albion.cells otherwise
Triangulated(collars, had_cell, cell_) ==
    [cell |-> Triangles(collars),
     hole_nodes |-> collars,
     cells |-> Triangles(collars),
     script |-> IF had_cell THEN NULL ELSE "albion_raster.sql"]

OutsideTriangulation ==
    /\ UnchangedGraphTables
    /\ UNCHANGED <<resistivity, section, named_section, server, desktop, pg_stat_activity, plugin, similog>>

\* the project database is there with its schema
ProjectOpen == ProjectName \in pg_database /\ "albion" \in schema

(* databases made, deleted, exported and imported *)
NextDb ==
    \/ \E n \in DbNames : exists(n)
    \/ \E n \in DbNames : delete(n)
    \/ \E n \in DbNames : create_db(n)
    \/ create(ProjectName)
    \/ \E cs \in CollarSets, k \in ResistivityRows :
            ProjectOpen /\ import_data(cs, 1..k)
    \/ ProjectOpen /\ create_section_view_0_90(1)
    \/ \E w \in BOOLEAN : ProjectOpen /\ export_project("niger.sql", w)
    \/ \E f \in Paths, w \in BOOLEAN, present \in {FileNames, RequiredFiles} :
            import_project(ProjectName, f, w, present)

SpecDb == Init /\ [][NextDb]_vars

(* -------------------------------- menu -------------------------------- *)

\* what subprocess.call(["famsa"]) does: the program runs and ends with a
\* code, or the call raises
FamsaOutcomes == {"exit 0", "exit 1", "FileNotFoundError", "PermissionError", "OSError"}

FamsaErrors == {"FileNotFoundError", "PermissionError", "OSError"}

\* the albion_similog library on the computer
LibraryStates == {"installed", "missing"}

SimilogEntries == {"Compute similog resistivity", "Update similog markers"}

\* an expression evaluated: its value, or the exception it raises
Value(v) == [ret |-> v, raised |-> NULL]

Raise(e) == [ret |-> FALSE, raised |-> e]

\* a name that from .similog.similog import defines
Imported(v) == IF HAVE_SIMILOG THEN v ELSE Raise("NameError")

\* a and b and ...: left to right, up to the first false value
RECURSIVE And(_, _)
And(vs, i) ==
    IF i > Len(vs) THEN Value(TRUE)
    ELSE IF vs[i].raised # NULL THEN vs[i]
    ELSE IF ~vs[i].ret THEN Value(FALSE)
    ELSE And(vs, i + 1)

check_similog_dependency == Value(albion_similog = "installed")

\* variant: except FileNotFoundError only
check_famsa_dependency_file_only ==
    IF famsa = "FileNotFoundError" THEN Value(FALSE)
    ELSE IF famsa \in FamsaErrors THEN Raise(famsa)
    ELSE Value(TRUE)

check_famsa_dependency == Value(famsa \notin FamsaErrors)

\* the enabled argument of the two entries
SimilogEnabled(project, has_resistivity_section) ==
    And(<<Value(project # NULL), Value(HAVE_SIMILOG), Value(has_resistivity_section),
          Imported(check_similog_dependency), Imported(check_famsa_dependency)>>, 1)

MarkersEnabled(project, has_resistivity_section, has_similog_consensus) ==
    And(<<Value(project # NULL), Value(HAVE_SIMILOG), Value(has_resistivity_section),
          Imported(check_similog_dependency), Imported(check_famsa_dependency),
          Value(has_similog_consensus)>>, 1)

Entry(name, enabled) == [name |-> name, enabled |-> enabled.ret]

OutsideDesktop ==
    /\ UnchangedGraphTables
    /\ UNCHANGED <<collar, resistivity, section, named_section, server, triangulation,
                   pg_stat_activity, plugin, similog>>

\* the module is loaded: the try .. except ModuleNotFoundError around the
\* import of the dialog; found tells whether its modules are there
load_plugin(found) ==
    /\ HAVE_SIMILOG' = found
    /\ menu' = {}
    /\ lastOp' = [Call("load_plugin", NULL) EXCEPT !.ret = found]
    /\ UNCHANGED <<albion_similog, famsa>>
    /\ OutsideDesktop

\* the library or the famsa program is installed, removed or damaged
computer(library, program) ==
    /\ albion_similog' = library
    /\ famsa' = program
    /\ lastOp' = Call("computer", NULL)
    /\ UNCHANGED <<HAVE_SIMILOG, menu>>
    /\ OutsideDesktop

\* Plugin.__create_menu_entries, for its two similog entries; project is
\* self.project, the two flags what the project answers
create_menu_entries(project, has_resistivity_section, has_similog_consensus) ==
    LET e1 == SimilogEnabled(project, has_resistivity_section)
        e2 == MarkersEnabled(project, has_resistivity_section, has_similog_consensus)
        raised == IF e1.raised # NULL THEN e1.raised ELSE e2.raised
    IN /\ menu' = IF e1.raised # NULL THEN {}
                  ELSE IF e2.raised # NULL
                       THEN {Entry("Compute similog resistivity", e1)}
                       ELSE {Entry("Compute similog resistivity", e1),
                             Entry("Update similog markers", e2)}
       /\ lastOp' = [Call("create_menu_entries", project) EXCEPT
                        !.ok = raised = NULL, !.typ = raised,
                        !.rows = <<has_resistivity_section, has_similog_consensus>>]
       /\ UNCHANGED <<HAVE_SIMILOG, albion_similog, famsa>>
       /\ OutsideDesktop

(* the menu shown on computers with and without similog and famsa *)
NextMenu ==
    \/ \E found \in BOOLEAN : load_plugin(found)
    \/ \E l \in LibraryStates, f \in FamsaOutcomes : computer(l, f)
    \/ \E project \in {NULL, ProjectName}, r \in BOOLEAN, c \in BOOLEAN :
            create_menu_entries(project, r, c)

SpecMenu == Init /\ [][NextMenu]_vars

(* ----------------------- connections and transactions ----------------- *)

\* steps of a method on its connections: with self.connect() as con,
\* cur.execute, con.commit(), the end of the with block, self.vacuum()
With(c) == [do |-> "with", con |-> c, st |-> NULL]

Execute(c, st) == [do |-> "execute", con |-> c, st |-> st]

Commit(c) == [do |-> "commit", con |-> c, st |-> NULL]

End(c) == [do |-> "end", con |-> c, st |-> NULL]

Vacuum(c) == [do |-> "vacuum", con |-> c, st |-> "vacuum analyze"]

\* the steps of the methods, connections numbered in the order they are opened
Steps ==
    [delete_graph |-> <<With(1), Execute(1, "DELETE FROM albion.graph"), End(1)>>,
     add_to_graph_node |-> <<With(1), Execute(1, "INSERT INTO albion.node"), End(1)>>,
     accept_possible_edge |-> <<With(1), Execute(1, "INSERT INTO albion.edge"), End(1)>>,
     new_graph |-> <<With(1), Execute(1, "DELETE FROM albion.graph"),
                     Execute(1, "INSERT INTO albion.graph"), Commit(1), End(1)>>,
     vacuum |-> <<Vacuum(1)>>,
     triangulate |-> <<With(1), Execute(1, "SELECT albion.triangulate()"),
                       With(2), Execute(2, "SELECT COUNT(1) FROM albion.cell"), End(2),
                       Execute(1, "REFRESH MATERIALIZED VIEW"), Commit(1), End(1)>>,
     import_data |-> <<With(1),
                       With(2), Execute(2, "COPY albion.raw_hole"), End(2),
                       Execute(1, "SELECT albion.update_consensus_hole()"),
                       With(3), Execute(3, "COPY albion.resistivity"), End(3),
                       Commit(1), End(1), Vacuum(4)>>,
     create_sections |-> <<With(1), Execute(1, "SELECT 1 FROM information_schema.columns"),
                           End(1),
                           With(2), Execute(2, "REFRESH MATERIALIZED VIEW albion.section_geom"),
                           Commit(2), End(2)>>]

Operations == DOMAIN Steps

\* the statements of a method
StatementsOf(op) == {Steps[op][i].st : i \in {k \in 1..Len(Steps[op]) : Steps[op][k].st # NULL}}

\* steps of a method that can raise: its statements; step 0 is no failure
FaultSteps(op) == {0} \cup {k \in 1..Len(Steps[op]) : Steps[op][k].do = "execute"}

\* a method about to run: the with blocks it is in, its open connections,
\* statements executed and not committed, committed, rolled back
Started ==
    [stack |-> <<>>, open |-> {}, pending |-> {}, committed |-> {}, rolled |-> {},
     opened |-> 0, transactions |-> 0, raised |-> FALSE]

PendingOf(r, c) == {p \in r.pending : p[1] = c}

Committing(r, c) ==
    [r EXCEPT !.committed = @ \cup {p[2] : p \in PendingOf(r, c)},
              !.pending = @ \ PendingOf(r, c),
              !.transactions = IF PendingOf(r, c) = {} THEN @ ELSE @ + 1]

\* variant: the with block ends the way contextlib.closing does, closing
\* the connection without a commit
with_exit_closing(r, c) ==
    [r EXCEPT !.rolled = @ \cup {p[2] : p \in PendingOf(r, c)},
              !.pending = @ \ PendingOf(r, c),
              !.open = @ \ {c},
              !.stack = SubSeq(@, 1, Len(@) - 1)]

\* the with block of a psycopg2 connection ends without an exception: the
\* transaction is committed, the connection is not closed
with_exit(r, c) == [Committing(r, c) EXCEPT !.stack = SubSeq(@, 1, Len(@) - 1)]

\* an exception leaves the with blocks: each rolls its transaction back,
\* and the traceback keeps the connections of their frames
Raising(r) ==
    [r EXCEPT !.rolled = @ \cup {p[2] : p \in r.pending},
              !.pending = {},
              !.stack = <<>>,
              !.raised = TRUE]

\* the method returns: its frame lets go of the connections, which are
\* closed as they are deallocated; what is pending on them is lost
Returning(r) ==
    [r EXCEPT !.rolled = @ \cup {p[2] : p \in r.pending},
              !.pending = {},
              !.open = {}]

Step(r, step) ==
    CASE step.do = "with" ->
            [r EXCEPT !.stack = Append(@, step.con), !.open = @ \cup {step.con},
                      !.opened = @ + 1]
      [] step.do = "execute" -> [r EXCEPT !.pending = @ \cup {<<step.con, step.st>>}]
      [] step.do = "commit" -> Committing(r, step.con)
      [] step.do = "end" -> with_exit(r, step.con)
      [] step.do = "vacuum" ->
            [r EXCEPT !.committed = @ \cup {step.st}, !.opened = @ + 1,
                      !.transactions = @ + 1]

\* the steps from the i-th on; the step fault raises
RECURSIVE Run(_, _, _, _)
Run(steps, i, r, fault) ==
    IF i > Len(steps) THEN Returning(r)
    ELSE IF i = fault THEN Raising(r)
    ELSE Run(steps, i + 1, Step(r, steps[i]), fault)

OutsideConnections ==
    /\ UnchangedGraphTables
    /\ UNCHANGED <<collar, resistivity, section, named_section, server, triangulation, desktop,
                   plugin, similog>>

(* ------------------- triangulate and its connections ------------------ *)

\* variant: __has_cell reads through the connection of triangulate
HasCellConnection_of_triangulate == Steps.triangulate[1].con

\* the connection of the SELECT COUNT(1) FROM albion.cell of __has_cell, a
\* connection of its own
HasCellConnection ==
    LET i == CHOOSE k \in 1..Len(Steps.triangulate) :
                Steps.triangulate[k].st = "SELECT COUNT(1) FROM albion.cell"
    IN Steps.triangulate[i].con

\* albion.cell as a connection reads it once connection 1 has executed
\* SELECT albion.triangulate() and not committed: connection 1 reads the new
\* cells, any other the committed ones
CellsSeen(con) == IF con = 1 THEN Triangles(collar) ELSE cell

\* steps of triangulate that can raise, 0 for none
TriangulateFaults == FaultSteps("triangulate")

\* Project.triangulate; the sixth step is the statements of the branch
\* taken, albion_raster.sql or the two REFRESH; the tables take what the
\* transaction of connection 1 commits
triangulate(fault) ==
    LET r == Run(Steps.triangulate, 1, Started, fault)
        answered == "SELECT COUNT(1) FROM albion.cell" \in r.committed
        had_cell == CellsSeen(HasCellConnection) # {}
        t == Triangulated(collar, had_cell, cell)
    IN /\ cell' = IF "SELECT albion.triangulate()" \in r.committed THEN t.cell ELSE cell
       /\ hole_nodes' = IF "REFRESH MATERIALIZED VIEW" \in r.committed
                        THEN t.hole_nodes ELSE hole_nodes
       /\ cells' = IF "REFRESH MATERIALIZED VIEW" \in r.committed THEN t.cells ELSE cells
       /\ lastOp' = [Call("triangulate", NULL) EXCEPT
                        !.ok = ~r.raised,
                        !.pre = cell,
                        !.ret = answered /\ had_cell,
                        !.typ = IF answered THEN t.script ELSE NULL,
                        !.refs = r.committed,
                        !.gone = r.rolled]
       /\ UNCHANGED collar
       /\ OutsideTriangulation

\* Plugin.__import_new_data: import_data on a project that has holes, then
\* triangulate() if the project has cells
import_new_data(collars) ==
    LET all == collar \cup collars
        t == Triangulated(all, TRUE, cell)
    IN /\ collar # {}
       /\ collar' = all
       /\ IF has_cell
          THEN /\ cell' = t.cell
               /\ hole_nodes' = t.hole_nodes
               /\ cells' = t.cells
               /\ lastOp' = [Call("triangulate", NULL) EXCEPT
                                !.pre = cell, !.ret = TRUE, !.typ = t.script,
                                !.refs = StatementsOf("triangulate")]
          ELSE /\ lastOp' = Call("import_data", NULL)
               /\ UNCHANGED triangulation
       /\ OutsideTriangulation

(* holes imported and triangulated *)
NextCell ==
    \/ \E cs \in CollarSets, k \in ResistivityRows : import_data(cs, 1..k)
    \/ \E cs \in NewCollarSets : import_new_data(cs)
    \/ \E fault \in TriangulateFaults : triangulate(fault)

SpecCell == Init /\ [][NextCell]_vars

\* a method of Project is called and returns or raises
call(op, fault) ==
    LET r == Run(Steps[op], 1, Started, fault)
    IN /\ pg_stat_activity' = pg_stat_activity \cup {[op |-> op, con |-> c] : c \in r.open}
       /\ lastOp' = [Call(op, "connect") EXCEPT
                        !.ok = ~r.raised,
                        !.ids = <<r.opened, r.transactions, Cardinality(r.open)>>,
                        !.refs = r.committed,
                        !.gone = r.rolled,
                        !.pre = r.pending]
       /\ OutsideConnections

\* the exception has been dealt with: its traceback goes, and with it the
\* connections
release ==
    /\ pg_stat_activity # {}
    /\ pg_stat_activity' = {}
    /\ lastOp' = Call("release", NULL)
    /\ OutsideConnections

(* methods called one after the other, any statement of theirs failing *)
NextConnect ==
    \/ \E op \in Operations : \E fault \in FaultSteps(op) : call(op, fault)
    \/ release
    \/ exists(ProjectName)

SpecConnect == Init /\ [][NextConnect]_vars

(* ------------------------------ claims -------------------------------- *)

\* rows of albion.graph whose id is graph_id
RowsOf(gs, graph_id) == {i \in 1..Len(gs) : gs[i].id = graph_id}

\* C1: delete_graph(p) on a graph p that is the parent of a graph c leaves c
\* in albion.graph, leaves no graph_relationship row naming p, and removes
\* no row of albion.graph other than p's.
C1_DeleteParentKeepsChildren ==
    [][lastOp'.op = "delete_graph" =>
        LET p == lastOp'.g
            children == {r[2] : r \in {q \in graph_relationship : q[1] = p}} \ {p}
        IN /\ children \subseteq GraphIds(graph')
           /\ \A r \in graph_relationship' : r[1] # p /\ r[2] # p
           /\ \A i \in 1..Len(graph) :
                graph[i].id # p => \E j \in 1..Len(graph') : graph'[j] = graph[i]
           /\ p \notin GraphIds(graph')]_vars

\* a parent graph has been deleted and its child, which has nodes, is there
C1_Witness ==
    /\ lastOp.op = "delete_graph"
    /\ lastOp.g \notin GraphIds(graph)
    /\ lastOp.pre # {}
    /\ lastOp.pre \subseteq GraphIds(graph)
    /\ lastOp.gone_nodes > 0
    /\ \E c \in lastOp.pre : NodesOfGraph(node, c) # {}

\* C2: get_existing_graphs() returns exactly the ids created by new_graph
\* and not deleted by a later delete_graph, each of them once.
C2_ExistingGraphsAreCreatedOnes ==
    lastOp.op = "get_existing_graphs" =>
        /\ Range(lastOp.rows) = {g \in Graphs : created[g] > 0}
        /\ \A i, j \in 1..Len(lastOp.rows) : lastOp.rows[i] = lastOp.rows[j] => i = j

\* the list holds two graphs, one of them created twice without a deletion
C2_Witness ==
    /\ lastOp.op = "get_existing_graphs"
    /\ Len(lastOp.rows) = 2
    /\ \E g \in Graphs : created[g] = 2

\* C3: a new_graph(g) that returns leaves exactly one row (g, no type), no
\* node and no edge of g, and as relationships of g those to its references
\* only, whether or not g existed before; the other graphs keep their rows.
C3_NewGraphReplacesExisting ==
    [][lastOp'.op = "new_graph" /\ lastOp'.ok =>
        LET g == lastOp'.g
        IN /\ Cardinality(RowsOf(graph', g)) = 1
           /\ GraphType(graph', g) = NULL
           /\ NodesOfGraph(node', g) = {}
           /\ {e \in edge' : e.graph_id = g} = {}
           /\ {t \in end_node' : t.graph_id = g} = {}
           /\ {r \in graph_relationship' : r[1] = g \/ r[2] = g}
                = {<<parent, g>> : parent \in lastOp'.refs}
           /\ \A n \in node' : n.parent \in NodeIds(node') \cup {NoNode}
           /\ \A h \in Graphs \ {g} :
                {graph'[i] : i \in RowsOf(graph', h)} = {graph[i] : i \in RowsOf(graph, h)}]_vars

\* new_graph has replaced a graph that had a type, nodes and an edge
C3_Witness ==
    /\ lastOp.op = "new_graph"
    /\ lastOp.ok
    /\ lastOp.g \in lastOp.pre
    /\ lastOp.pre \cap GraphTypes # {}
    /\ lastOp.gone_nodes > 0
    /\ lastOp.gone_edges > 0

\* C10: check_graph_type(g, t) on a graph without type stores t and returns
\* True; on a graph with a type it returns whether t is that type and
\* leaves the type as it is.
C10_CheckGraphType ==
    [][lastOp'.op = "check_graph_type" /\ lastOp'.ok =>
        LET g == lastOp'.g
            t == lastOp'.typ
        IN /\ g \in GraphIds(graph)
           /\ IF GraphType(graph, g) = NULL
              THEN GraphType(graph', g) = t /\ lastOp'.ret
              ELSE /\ lastOp'.ret = (t = GraphType(graph, g))
                   /\ GraphType(graph', g) = GraphType(graph, g)]_vars

\* a second type has been refused and the first one is still stored
C10_Witness ==
    /\ lastOp.op = "check_graph_type"
    /\ lastOp.ok
    /\ ~lastOp.ret
    /\ lastOp.pre # {}
    /\ GraphType(graph, lastOp.g) \in lastOp.pre
    /\ GraphType(graph, lastOp.g) # lastOp.typ

\* nodes of the graphs that child graph g references, on hole h
ParentGraphNodesOn(g, h) ==
    {m \in node : m.hole_id = h /\ <<m.graph_id, g>> \in graph_relationship}

\* C4: a node inserted by add_to_graph_node into a graph that references a
\* parent graph gets as parent a node of the parent graph on its own hole,
\* none of which is nearer in depth (NULL when there is none on that hole);
\* a node inserted into a graph without parent graph gets a NULL parent.
C4_InsertedNodeParent ==
    lastOp.op = "add_to_graph_node" /\ lastOp.ok =>
        \A id \in Range(lastOp.ids) :
            LET n == NodeById(node, id)
                cand == ParentGraphNodesOn(n.graph_id, n.hole_id) \ {n}
            IN /\ n.graph_id = lastOp.g
               /\ IF cand = {}
                  THEN n.parent = NoNode
                  ELSE /\ n.parent \in NodeIds(cand)
                       /\ \A d \in cand :
                            DepthDist(n, NodeById(node, n.parent)) <= DepthDist(n, d)

\* the inserted node took its parent on its own hole although the parent
\* graph has a node nearer in depth on another hole
C4_Witness ==
    /\ lastOp.op = "add_to_graph_node"
    /\ lastOp.ok
    /\ \E id \in Range(lastOp.ids) :
        LET n == NodeById(node, id)
        IN /\ n.parent # NoNode
           /\ NodeById(node, n.parent).graph_id # n.graph_id
           /\ \E m \in node :
                /\ <<m.graph_id, n.graph_id>> \in graph_relationship
                /\ m.hole_id # n.hole_id
                /\ DepthDist(n, m) < DepthDist(n, NodeById(node, n.parent))

\* C5: after an insertion or a deletion of nodes, in a parent graph or in a
\* child graph, every node's parent is an existing node of a parent graph on
\* the node's hole, none of which is nearer in depth, or NULL when the
\* parent graphs have no node on that hole.
C5_ParentsFollowNodes ==
    lastOp.op \in {"add_to_graph_node", "delete_node"} /\ lastOp.ok =>
        \A n \in node :
            LET cand == ParentGraphNodesOn(n.graph_id, n.hole_id) \ {n}
            IN IF cand = {}
               THEN n.parent = NoNode
               ELSE /\ n.parent \in NodeIds(cand)
                    /\ \A d \in cand :
                         DepthDist(n, NodeById(node, n.parent)) <= DepthDist(n, d)

\* the parent node just deleted was nearer to a child node than the parent
\* the child refers to now
C5_Witness ==
    /\ lastOp.op = "delete_node"
    /\ \E n \in node, d \in lastOp.gone :
        /\ <<lastOp.g, n.graph_id>> \in graph_relationship
        /\ lastOp.g # n.graph_id
        /\ d.hole_id = n.hole_id
        /\ n.parent # NoNode
        /\ DepthDist(n, d) < DepthDist(n, NodeById(node, n.parent))

\* the view as a query sees it in the current state
CurrentPossibleEdges == possible_edge(node, graph_relationship, metadata)

\* one of the three offsets of the pair is under the threshold of the angle
SomeOffsetUnder(n1, n2, angle) ==
    LET dist == HoleDist(n1.hole_id, n2.hole_id)
    IN \/ UnderThreshold(StartOffset2(n1, n2), dist, angle)
       \/ UnderThreshold(MedianOffset2(n1, n2), dist, angle)
       \/ UnderThreshold(EndOffset2(n1, n2), dist, angle)

\* possible edges of the graphs without parent
RootEdgesNow == {pe \in CurrentPossibleEdges : ~HasParentGraph(graph_relationship, pe.graph_id)}

\* what the view gave for these graphs before the last update of the angle:
\* the update leaves nodes and relationships as they are, so that is the view
\* of the same tables at the angle the update replaced
RootEdgesBefore ==
    UNION {{pe \in possible_edge(node, graph_relationship,
                                 [metadata EXCEPT !.correlation_angle = old]) :
                ~HasParentGraph(graph_relationship, pe.graph_id)} : old \in lastOp.pre}

\* C6: in a graph without parent, two nodes on different holes form a
\* possible edge exactly when their offset is valid for the value
\* metadata.correlation_angle has at the time of the query, and an update
\* that raises the angle removes no possible edge.
C6_RootPossibleEdges ==
    LET now == RootEdgesNow
    IN /\ \A a, b \in node :
            (/\ a.id < b.id
             /\ a.graph_id = b.graph_id
             /\ a.hole_id # b.hole_id
             /\ ~HasParentGraph(graph_relationship, a.graph_id))
            => (EdgeRow(a, b) \in now
                    <=> SomeOffsetUnder(a, b, metadata.correlation_angle))
       /\ \A pe \in now :
            \E a, b \in node : /\ pe = EdgeRow(a, b)
                               /\ a.graph_id = b.graph_id
                               /\ a.hole_id # b.hole_id
       /\ (/\ lastOp.op = "set_correlation_angle"
           /\ \A old \in lastOp.pre : old <= metadata.correlation_angle)
            => RootEdgesBefore \subseteq now

\* the angle has just been raised from 10 to 20 and the graph shows two
\* possible edges, one of which is not valid at 10
C6_Witness ==
    /\ lastOp.op = "set_correlation_angle"
    /\ lastOp.pre = {10}
    /\ metadata.correlation_angle = 20
    /\ \E pe1, pe2 \in RootEdgesNow :
        /\ pe1 # pe2
        /\ pe1.graph_id = pe2.graph_id
        /\ pe1 \in RootEdgesBefore
        /\ pe2 \notin RootEdgesBefore
        /\ ~SomeOffsetUnder(NodeById(node, pe2.start_), NodeById(node, pe2.end_), 10)

\* the end of a possible edge that lies on hole h
EndOn(pe, h) ==
    IF NodeById(node, pe.start_).hole_id = h
    THEN NodeById(node, pe.start_) ELSE NodeById(node, pe.end_)

\* C7: a possible edge of a child graph joins two holes that a possible
\* edge of a parent graph joins too, and its offset differs from that
\* parent edge's offset by less than the threshold of
\* parent_correlation_angle.
C7_ChildPossibleEdges ==
    \A pe \in CurrentPossibleEdges :
        HasParentGraph(graph_relationship, pe.graph_id) =>
            LET ns == NodeById(node, pe.start_)
                ne == NodeById(node, pe.end_)
            IN \E ppe \in CurrentPossibleEdges :
                /\ <<ppe.graph_id, pe.graph_id>> \in graph_relationship
                /\ {NodeById(node, ppe.start_).hole_id, NodeById(node, ppe.end_).hole_id}
                     = {ns.hole_id, ne.hole_id}
                /\ valid_parent_offset(ns, ne, EndOn(ppe, ns.hole_id), EndOn(ppe, ne.hole_id),
                                       metadata.parent_correlation_angle)

\* a child graph has a possible edge under a possible edge of its parent
C7_Witness ==
    \E pe, ppe \in CurrentPossibleEdges :
        /\ <<ppe.graph_id, pe.graph_id>> \in graph_relationship
        /\ ppe.graph_id # pe.graph_id
        /\ metadata.parent_correlation_angle = 10

\* C8: albion.valid_offset(n1, n2, angle) is true exactly when one at least
\* of the offsets at the starting, median and ending points of the two
\* nodes is under the threshold of the angle at the nodes' distance.
C8_ValidOffset ==
    lastOp.op = "valid_offset" =>
        LET n1 == NodeById(node, lastOp.ids[1])
            n2 == NodeById(node, lastOp.ids[2])
        IN lastOp.ret <=> SomeOffsetUnder(n1, n2, lastOp.angle)

\* the offset was found valid although the starting points are too far apart
C8_Witness ==
    /\ lastOp.op = "valid_offset"
    /\ lastOp.ret
    /\ LET n1 == NodeById(node, lastOp.ids[1])
           n2 == NodeById(node, lastOp.ids[2])
       IN ~UnderThreshold(StartOffset2(n1, n2), HoleDist(n1.hole_id, n2.hole_id),
                          lastOp.angle)

\* C9: after accept_possible_edge(g) followed by create_terminations(g),
\* every row of albion.end_node of graph g pairs a node of g with a hole
\* that neighbours the node's hole and toward which the node has no
\* accepted edge.
C9_TerminationsAreUnmatched ==
    lastOp.op = "create_terminations" /\ lastOp.pre = {lastOp.g} =>
        \A t \in end_node :
            t.graph_id = lastOp.g =>
                /\ t.node_id \in NodeIds(NodesOfGraph(node, lastOp.g))
                /\ LET n == NodeById(node, t.node_id)
                   IN /\ t.hole_id # n.hole_id
                      /\ Neighbour(n.hole_id, t.hole_id)
                      /\ ~HasEdgeToward(node, edge, n, t.hole_id)

\* lines of the named sections of section id
NamedLines(id) == {n.geom : n \in {m \in named_section : m.section = id}}

\* where a step to the next (dir = 1) or previous (dir = -1) named section
\* takes a section that shows line g
Neighbouring(id, g, dir) ==
    LET ahead == {l \in NamedLines(id) : (l - g) * dir > 0}
    IN IF ahead = {} THEN {g}
       ELSE {l \in ahead : \A k \in ahead : (k - g) * dir >= (l - g) * dir}

\* C11: next_section(s) and previous_section(s) move section s to its next
\* and previous named section, leave it on its line when it shows its last
\* (first) named section, and change no other section.
C11_SectionWalk ==
    [][lastOp'.op \in {"next_section", "previous_section"} =>
        LET s == lastOp'.g
            dir == IF lastOp'.op = "next_section" THEN 1 ELSE -1
        IN /\ named_section' = named_section
           /\ {r.id : r \in section'} = {r.id : r \in section}
           /\ Cardinality(section') = Cardinality(section)
           /\ \A r \in section :
                IF r.id = s
                THEN \E l \in Neighbouring(s, r.geom, dir) : [r EXCEPT !.geom = l] \in section'
                ELSE r \in section']_vars

\* next_section has left a section on the last of its two named sections
\* while another section had a named section ahead of it and did not move
C11_Witness ==
    /\ lastOp.op = "next_section"
    /\ \E r \in section :
        /\ r.id = lastOp.g
        /\ lastOp.pre = {r.geom}
        /\ Cardinality(NamedLines(r.id)) = 2
        /\ r.geom = Max(NamedLines(r.id))
    /\ \E r \in section :
        /\ r.id # lastOp.g
        /\ \E l \in NamedLines(r.id) : l > r.geom

\* the fault of the last update() and whether it met a statement it could stop
LastFault == lastOp.rows[1]

FaultStops ==
    /\ LastFault # NoFault
    /\ sql_files[LastFault.i].name \in lastOp.refs
    /\ ~_is_ignorable_sql_error(LastFault.err)

\* C19: update() with its required files, meeting only errors that are
\* ignorable (objects that exist already, objects to drop that are missing,
\* a fault with an ignorable code or text), raises nothing, is committed,
\* keeps what the statements other than the skipped ones do, and a second
\* run on its result changes nothing.
C19_UpdateIdempotent ==
    (/\ lastOp.op = "update"
     /\ "albion" \in lastOp.pre
     /\ RequiredFiles \subseteq lastOp.refs
     /\ ~FaultStops)
    => /\ lastOp.ok
       /\ lastOp.pre \ UpdateObjects = schema \ UpdateObjects
       /\ \A i \in 1..Len(sql_files) :
            sql_files[i].name \in lastOp.refs =>
                LET last == Len(sql_files[i].statements)
                    obj == sql_files[i].statements[last].obj
                IN IF LastFault.i = i /\ LastFault.j = last
                   THEN obj \in schema <=> (last = 1 /\ obj \in lastOp.pre)
                   ELSE obj \in schema
       /\ LastFault = NoFault =>
            Updated(schema, lastOp.refs, NoFault)
                = [schema |-> schema, raised |-> FALSE, typ |-> NULL]

\* update() has run on a schema that held an object of every file: the
\* creations were skipped, nothing was raised, the schema is the same
C19_Witness ==
    /\ lastOp.op = "update"
    /\ lastOp.ok
    /\ LastFault = NoFault
    /\ lastOp.refs = FileNames
    /\ UpdateObjects \subseteq lastOp.pre
    /\ schema = lastOp.pre

\* C20: update() raises RuntimeError and commits nothing when a statement
\* meets an error that is not ignorable or a required file is missing; a
\* missing optional file is skipped and the files after it are applied.
C20_UpdateAllOrNothing ==
    (lastOp.op = "update" /\ "albion" \in lastOp.pre) =>
        /\ (FaultStops \/ ~(RequiredFiles \subseteq lastOp.refs))
            => /\ ~lastOp.ok
               /\ lastOp.typ = "RuntimeError"
               /\ schema = lastOp.pre
        /\ (/\ RequiredFiles \subseteq lastOp.refs
            /\ lastOp.refs # FileNames
            /\ LastFault = NoFault)
            => /\ lastOp.ok
               /\ "section_rotation_deg" \in schema
               /\ "formation_from_polygon" \in schema <=> "formation_from_polygon" \in lastOp.pre

\* update() raised on the last file after the first file had an object to
\* create, and the schema is as it was
C20_Witness ==
    /\ lastOp.op = "update"
    /\ ~lastOp.ok
    /\ LastFault.i = Len(sql_files)
    /\ lastOp.refs = FileNames
    /\ "formation_section_edit" \notin lastOp.pre
    /\ schema = lastOp.pre

\* C12: Project.exists(name) is True from a successful creation of the
\* database to the next Project.delete(name) and False otherwise;
\* Project.delete of a name without database and Project.create_db of a name
\* with one fail their assertion and change no database.
C12_ExistsFollowsCreateDelete ==
    /\ lastOp.op = "exists" => (lastOp.ret <=> lastOp.g \in db_made)
    /\ lastOp.op = "delete" =>
        IF lastOp.g \in lastOp.refs
        THEN lastOp.ok /\ pg_database = lastOp.refs \ {lastOp.g}
        ELSE ~lastOp.ok /\ lastOp.typ = "AssertionError" /\ pg_database = lastOp.refs
    /\ lastOp.op = "create_db" =>
        IF lastOp.g \notin lastOp.refs
        THEN lastOp.ok /\ pg_database = lastOp.refs \cup {lastOp.g}
        ELSE ~lastOp.ok /\ lastOp.typ = "AssertionError" /\ pg_database = lastOp.refs

\* the database of the project, which was there at first, is found missing
\* while another database is there
C12_Witness ==
    /\ lastOp.op = "exists"
    /\ lastOp.g = ProjectName
    /\ ~lastOp.ret
    /\ pg_database # {}

SectionRows(sections, id) == {r \in sections : r.id = id}

EdgesOf(edges, g) == {e \in edges : e.graph_id = g}

PossibleEdgesOf(g) == EdgesOf(possible_edge(node, graph_relationship, metadata), g)

Accepted == lastOp.op = "accept_possible_edge"

\* C18: accept_possible_edge(g) adds the possible edges g has at the call to
\* the accepted edges g had before it, so that the accepted edges of g are
\* exactly its possible edges when every edge g had before is still
\* possible (none, for a new graph); the edges of every other graph stay as
\* they were
C18_AcceptAddsPossibleEdges ==
    Accepted =>
        /\ EdgesOf(edge, lastOp.g) = EdgesOf(lastOp.pre, lastOp.g) \cup PossibleEdgesOf(lastOp.g)
        /\ EdgesOf(lastOp.pre, lastOp.g) \subseteq PossibleEdgesOf(lastOp.g)
                => EdgesOf(edge, lastOp.g) = PossibleEdgesOf(lastOp.g)
        /\ \A g \in Graphs \ {lastOp.g} : EdgesOf(edge, g) = EdgesOf(lastOp.pre, g)

\* a graph without accepted edges gets its possible edges
C18_Witness ==
    /\ Accepted
    /\ EdgesOf(lastOp.pre, lastOp.g) = {}
    /\ PossibleEdgesOf(lastOp.g) # {}
    /\ edge = PossibleEdgesOf(lastOp.g)

\* C18 as stated: after the call the accepted edges of g are exactly its
\* possible edges
C18_ExactlyPossibleEdges ==
    Accepted => EdgesOf(edge, lastOp.g) = PossibleEdgesOf(lastOp.g)

\* a call of triangulate has just returned
TriangulateCalled == lastOp.op = "triangulate" /\ lastOp.ok

MenuBuilt == lastOp.op = "create_menu_entries"

Enabled(name) == \E e \in menu : e.name = name /\ e.enabled

\* C15: each time the menu is built, building it raises no error, the two
\* similog entries are in it, and they are enabled only if a project is
\* set, the similog dialog module was imported and both
\* check_similog_dependency() and check_famsa_dependency() succeed: with the
\* famsa program or the similog library missing both are disabled
C15_SimilogEntries ==
    MenuBuilt =>
        /\ lastOp.ok
        /\ {e.name : e \in menu} = SimilogEntries
        /\ \A name \in SimilogEntries :
                Enabled(name) => /\ lastOp.g # NULL
                                 /\ HAVE_SIMILOG
                                 /\ albion_similog = "installed"
                                 /\ famsa \notin FamsaErrors
        /\ albion_similog = "missing" \/ famsa \in FamsaErrors
                => \A name \in SimilogEntries : ~Enabled(name)

\* the menu of a project with resistivity sections and a consensus, built
\* on a computer whose famsa file cannot be executed
C15_Witness ==
    /\ MenuBuilt
    /\ lastOp.g = ProjectName
    /\ lastOp.rows = <<TRUE, TRUE>>
    /\ HAVE_SIMILOG
    /\ albion_similog = "installed"
    /\ famsa = "PermissionError"
    /\ menu = {[name |-> n, enabled |-> FALSE] : n \in SimilogEntries}

\* a method has just been called; it has a con.commit() of its own
Called == lastOp.g = "connect" /\ lastOp.op \in Operations

Explicit(op) == \E i \in 1..Len(Steps[op]) : Steps[op][i].do = "commit"

MaxItems == 3

\* the most nodes the selections put into the graphs
MaxPluginNodes == 2

\* the selection in the active layer
SelectedFeatures == {<<Feature("h0", 40, 41)>>}

\* QComboBox.currentText(): the empty string without a current item
currentText(box) == IF box.index = 0 THEN "" ELSE box.items[box.index]

\* QComboBox.findText(text): the first item with this text, 0 where Qt
\* answers -1
findText(box, text) ==
    IF text \in Range(box.items)
    THEN Min({i \in 1..Len(box.items) : box.items[i] = text})
    ELSE 0

\* QComboBox.addItem(text): appended, whatever the items already there; the
\* first item of an empty box becomes the current one
addItem(box, text) ==
    [items |-> Append(box.items, text),
     index |-> IF box.items = <<>> THEN 1 ELSE box.index]

\* QComboBox.addItems(texts)
RECURSIVE addItems(_, _)
addItems(box, texts) ==
    IF texts = <<>> THEN box ELSE addItems(addItem(box, Head(texts)), Tail(texts))

setCurrentIndex(box, i) == [box EXCEPT !.index = i]

\* QComboBox.removeItem(index): nothing for an index out of range; the
\* current item stays the current one, and when it is the one removed the
\* item that takes its place, or the last one, becomes current
removeItem(box, i) ==
    IF i \notin 1..Len(box.items) THEN box
    ELSE [items |-> [j \in 1..(Len(box.items) - 1) |->
                        IF j < i THEN box.items[j] ELSE box.items[j + 1]],
          index |-> IF box.index > i THEN box.index - 1
                    ELSE IF box.index = i THEN Min({i, Len(box.items) - 1})
                    ELSE box.index]

\* what the handlers of the toolbar leave alone
OutsidePlugin ==
    UNCHANGED <<collar, resistivity, section, named_section, server, triangulation,
                desktop, pg_stat_activity, similog>>

\* Plugin.__qgis__project__loaded: the combo box is emptied and filled with
\* the ids of albion.graph
__qgis__project__loaded ==
    LET graphs == [i \in 1..Len(graph) |-> graph[i].id]
    IN /\ lastOp' = [Call("graphs", NULL) EXCEPT !.rows = graphs]
       /\ current_graph' = addItems([items |-> <<>>, index |-> 0], graphs)
       /\ UnchangedGraphTables
       /\ OutsidePlugin
       /\ UNCHANGED added_types

\* variant: the name is added to the combo box only when it is not in it
__new_graph_no_duplicate(graph_name, references, accepted) ==
    /\ references \subseteq GraphIds(graph)
    /\ IF accepted
       THEN /\ new_graph_statements(graph_name, references)
            /\ current_graph' =
                 IF ~lastOp'.ok THEN current_graph
                 ELSE IF graph_name \in Range(current_graph.items)
                 THEN setCurrentIndex(current_graph, findText(current_graph, graph_name))
                 ELSE LET added == addItem(current_graph, graph_name)
                      IN setCurrentIndex(added, findText(added, graph_name))
            /\ added_types' = IF lastOp'.ok THEN [added_types EXCEPT ![graph_name] = {}]
                              ELSE added_types
       ELSE /\ lastOp' = [Call("get_existing_graphs", NULL) EXCEPT
                            !.rows = [i \in 1..Len(graph) |-> graph[i].id]]
            /\ UnchangedGraphTables
            /\ UNCHANGED plugin
    /\ OutsidePlugin

\* Plugin.__new_graph: the dialog offers the existing graphs as references
\* and takes any name; once accepted the graph is created and its name added
\* to the combo box and made current
__new_graph(graph_name, references, accepted) ==
    /\ references \subseteq GraphIds(graph)
    /\ IF accepted
       THEN /\ new_graph_statements(graph_name, references)
            /\ current_graph' =
                 IF ~lastOp'.ok THEN current_graph
                 ELSE LET added == addItem(current_graph, graph_name)
                      IN setCurrentIndex(added, findText(added, graph_name))
            /\ added_types' = IF lastOp'.ok THEN [added_types EXCEPT ![graph_name] = {}]
                              ELSE added_types
       ELSE /\ lastOp' = [Call("get_existing_graphs", NULL) EXCEPT
                            !.rows = [i \in 1..Len(graph) |-> graph[i].id]]
            /\ UnchangedGraphTables
            /\ UNCHANGED plugin
    /\ OutsidePlugin

\* Plugin.__delete_graph: the name typed in the input dialog is removed from
\* the combo box, then the graph is deleted
__delete_graph(graph_name, ok) ==
    /\ IF ok
       THEN /\ current_graph' = removeItem(current_graph, findText(current_graph, graph_name))
            /\ delete_graph_statements(graph_name)
            /\ UNCHANGED added_types
       ELSE /\ lastOp' = Call("__delete_graph", graph_name)
            /\ UnchangedGraphTables
            /\ UNCHANGED plugin
    /\ OutsidePlugin

\* UPDATE albion.graph SET graph_type=.. WHERE id=..
SetGraphType(gs, graph_id, graph_type) ==
    [i \in 1..Len(gs) |->
        IF gs[i].id = graph_id THEN [gs[i] EXCEPT !.graph_type = graph_type] ELSE gs[i]]

\* variant: the selection is added whatever check_graph_type answers
__add_selection_to_graph_node_unchecked(features, data_type, confirmed) ==
    LET graph_name == currentText(current_graph)
    IN /\ IF ~confirmed
          THEN /\ lastOp' = [Call("__add_selection_to_graph_node", graph_name) EXCEPT
                                !.typ = data_type]
               /\ UnchangedGraphTables
               /\ UNCHANGED added_types
          ELSE IF graph_name \notin GraphIds(graph)
          THEN /\ check_graph_type_statements(graph_name, data_type)
               /\ UNCHANGED added_types
          ELSE /\ lastOp' = [Call("add_to_graph_node", graph_name) EXCEPT
                                !.typ = data_type, !.ret = TRUE,
                                !.pre = {GraphType(graph, graph_name)} \ {NULL},
                                !.ids = [i \in 1..Len(features) |-> node_id_seq + i - 1]]
               /\ graph' = IF GraphType(graph, graph_name) = NULL
                           THEN SetGraphType(graph, graph_name, data_type) ELSE graph
               /\ node' \in ResolveParents(
                               InsertNodeRows(node, features, graph_name, node_id_seq),
                               graph_relationship)
               /\ node_id_seq' = node_id_seq + Len(features)
               /\ added_types' = [added_types EXCEPT ![graph_name] = @ \cup {data_type}]
               /\ UNCHANGED <<graph_relationship, edge, end_node, metadata, created>>
       /\ UNCHANGED current_graph
       /\ OutsidePlugin

\* Plugin.__add_selection_to_graph_node: with a selection in the active
\* layer, the user is asked to confirm; the data type is the name of the
\* layer without its last word; the selection goes into the current graph
\* of the combo box when check_graph_type answers True
__add_selection_to_graph_node(features, data_type, confirmed) ==
    LET graph_name == currentText(current_graph)
    IN /\ IF ~confirmed
          THEN /\ lastOp' = [Call("__add_selection_to_graph_node", graph_name) EXCEPT
                                !.typ = data_type]
               /\ UnchangedGraphTables
               /\ UNCHANGED added_types
          ELSE IF \/ graph_name \notin GraphIds(graph)
                  \/ GraphType(graph, graph_name) \notin {NULL, data_type}
          THEN /\ check_graph_type_statements(graph_name, data_type)
               /\ UNCHANGED added_types
          ELSE /\ lastOp' = [Call("add_to_graph_node", graph_name) EXCEPT
                                !.typ = data_type, !.ret = TRUE,
                                !.pre = {GraphType(graph, graph_name)} \ {NULL},
                                !.ids = [i \in 1..Len(features) |-> node_id_seq + i - 1]]
               /\ graph' = IF GraphType(graph, graph_name) = NULL
                           THEN SetGraphType(graph, graph_name, data_type) ELSE graph
               /\ node' \in ResolveParents(
                               InsertNodeRows(node, features, graph_name, node_id_seq),
                               graph_relationship)
               /\ node_id_seq' = node_id_seq + Len(features)
               /\ added_types' = [added_types EXCEPT ![graph_name] = @ \cup {data_type}]
               /\ UNCHANGED <<graph_relationship, edge, end_node, metadata, created>>
       /\ UNCHANGED current_graph
       /\ OutsidePlugin

(* the toolbar on a loaded project *)
NextPlugin ==
    \/ __qgis__project__loaded
    \/ \E g \in Graphs, refs \in SUBSET Graphs, accepted \in BOOLEAN :
            /\ Len(current_graph.items) < MaxItems
            /\ __new_graph(g, refs, accepted)
    \/ \E g \in Graphs, ok \in BOOLEAN : __delete_graph(g, ok)
    \/ \E fs \in SelectedFeatures, t \in GraphTypes, confirmed \in BOOLEAN :
            /\ Room(fs, MaxPluginNodes)
            /\ __add_selection_to_graph_node(fs, t, confirmed)

SpecPlugin == Init /\ [][NextPlugin]_vars

(* ------------------ the similog dialog (similog.py) ------------------- *)

\* the boxes a valueChanged signal is connected with: partial(
\* self.__spin_box_constraints, min_spin_box, max_spin_box)
Connected(box) ==
    IF box \in {"_depth_min", "_depth_max"}
    THEN [min_spin_box |-> "_depth_min", max_spin_box |-> "_depth_max"]
    ELSE [min_spin_box |-> "_value_min", max_spin_box |-> "_value_max"]

\* QSpinBox.setValue: the value is brought into the range of the box, and
\* valueChanged is emitted when the value of the box changes
setValue(boxes, signals, box, v) ==
    LET bounded == Max({SpinMinimum, Min({SpinMaximum, v})})
    IN IF bounded = boxes[box]
       THEN [spin_box |-> boxes, valueChanged |-> signals]
       ELSE [spin_box |-> [boxes EXCEPT ![box] = bounded],
             valueChanged |-> Append(signals, box)]

OutsideSimilog ==
    /\ UnchangedGraphTables
    /\ UNCHANGED <<collar, resistivity, section, named_section, server, triangulation,
                   desktop, pg_stat_activity, plugin>>

\* the user gives a spin box a value; the signals are delivered before the
\* next event of the user is
change(box, v) ==
    LET set == setValue(spin_box, valueChanged, box, v)
    IN /\ valueChanged = <<>>
       /\ spin_box' = set.spin_box
       /\ valueChanged' = set.valueChanged
       /\ lastOp' = [Call("setValue", box) EXCEPT !.ids = <<v>>]
       /\ OutsideSimilog

\* variant: the maximum is raised to the minimum
__spin_box_constraints_raising ==
    LET box == Head(valueChanged)
        min_spin_box == Connected(box).min_spin_box
        max_spin_box == Connected(box).max_spin_box
        set == IF spin_box[min_spin_box] > spin_box[max_spin_box]
               THEN setValue(spin_box, Tail(valueChanged), max_spin_box,
                             spin_box[min_spin_box])
               ELSE [spin_box |-> spin_box, valueChanged |-> Tail(valueChanged)]
    IN /\ valueChanged # <<>>
       /\ spin_box' = set.spin_box
       /\ valueChanged' = set.valueChanged
       /\ lastOp' = [Call("__spin_box_constraints", box) EXCEPT
                        !.ret = spin_box[min_spin_box] > spin_box[max_spin_box]]
       /\ OutsideSimilog

\* SimilogDialog.__spin_box_constraints, called with the two boxes of the
\* pair for a valueChanged of either
__spin_box_constraints ==
    LET box == Head(valueChanged)
        min_spin_box == Connected(box).min_spin_box
        max_spin_box == Connected(box).max_spin_box
        set == IF spin_box[min_spin_box] > spin_box[max_spin_box]
               THEN setValue(spin_box, Tail(valueChanged), min_spin_box,
                             spin_box[max_spin_box])
               ELSE [spin_box |-> spin_box, valueChanged |-> Tail(valueChanged)]
    IN /\ valueChanged # <<>>
       /\ spin_box' = set.spin_box
       /\ valueChanged' = set.valueChanged
       /\ lastOp' = [Call("__spin_box_constraints", box) EXCEPT
                        !.ret = spin_box[min_spin_box] > spin_box[max_spin_box]]
       /\ OutsideSimilog

(* the spin boxes of the dialog changed one after the other *)
NextSimilog ==
    \/ \E box \in SpinBoxes, v \in SpinMinimum..SpinMaximum : change(box, v)
    \/ __spin_box_constraints

\* a signal emitted is delivered: the slot is called from within setValue
SpecSimilog == Init /\ [][NextSimilog]_vars /\ WF_vars(__spin_box_constraints)

\* C25: an import_project that does not find psql leaves the set of
\* databases as it was before the call
C25_NoDatabaseWithoutPsql ==
    lastOp.op = "import_project" /\ ~lastOp.ret => pg_database = lastOp.refs

\* C22: a new_graph that raises, its graph or one of its relationship rows
\* not being inserted, leaves the graphs, their relationships and their
\* nodes, edges and end nodes as they were before the call
C22_NewGraphAtomic ==
    [][lastOp'.op = "new_graph" /\ ~lastOp'.ok
            => UNCHANGED <<graph, graph_relationship, node, edge, end_node>>]_vars

\* new_graph has failed on a graph that was there with nodes, and is still
C22_Witness ==
    /\ lastOp.op = "new_graph"
    /\ ~lastOp.ok
    /\ lastOp.g \in GraphIds(graph)
    /\ NodesOfGraph(node, lastOp.g) # {}

\* graphs reached from g by n parent/child links or fewer, one at least
RECURSIVE Descendants(_, _, _)
Descendants(rel, g, n) ==
    IF n = 0 THEN {}
    ELSE LET children == {r[2] : r \in {q \in rel : q[1] = g}}
         IN children \cup UNION {Descendants(rel, c, n - 1) : c \in children}

Acyclic(rel) == \A g \in Graphs : g \notin Descendants(rel, g, Cardinality(Graphs))

\* C23: after any sequence of new_graph and delete_graph calls no cycle of
\* parent/child links goes through two graphs or more, and every row of
\* graph_relationship joins two graphs of albion.graph
C23_NoCycleOfGraphs ==
    /\ Acyclic({r \in graph_relationship : r[1] # r[2]})
    /\ \A r \in graph_relationship : {r[1], r[2]} \subseteq GraphIds(graph)

\* a graph that had been there is created again as the child of the other
C23_Witness ==
    /\ lastOp.op = "new_graph"
    /\ lastOp.ok
    /\ lastOp.g = "ref"
    /\ lastOp.refs = {"sub"}
    /\ created["ref"] = 2
    /\ graph_relationship = {<<"sub", "ref">>}

\* C23 as stated: graph_relationship has no row with parent_id equal to
\* child_id and no cycle
C23_NoSelfParentNoCycle ==
    /\ \A r \in graph_relationship : r[1] # r[2]
    /\ Acyclic(graph_relationship)

\* C24: after any sequence of New Graph and Delete Graph actions the combo
\* box of the toolbar holds exactly the ids of albion.graph, each once
C24_ComboBoxIsGraphTable ==
    /\ Range(current_graph.items) = GraphIds(graph)
    /\ Len(current_graph.items) = Len(graph)

\* the action 'Add selection to graph nodes' was dismissed, or
\* check_graph_type did not answer True
Refused(op) ==
    \/ op.op = "__add_selection_to_graph_node"
    \/ op.op = "check_graph_type" /\ ~(op.ok /\ op.ret)

\* C21: the selections added to a graph since its creation come from layers
\* of one data type, which is the type of the graph; a selection is added
\* only to a graph without type or of the type of the layer, and a dismissed
\* or refused action leaves the nodes as they were
C21_OneDataTypePerGraph ==
    /\ [](\A g \in Graphs :
            /\ Cardinality(added_types[g]) <= 1
            /\ g \in GraphIds(graph) => added_types[g] \subseteq {GraphType(graph, g)})
    /\ [][/\ Refused(lastOp') => node' = node
          /\ lastOp'.op = "add_to_graph_node" =>
                /\ lastOp'.pre \subseteq {lastOp'.typ}
                /\ added_types'[lastOp'.g] = {lastOp'.typ}
                /\ NodesOfGraph(node', lastOp'.g) # NodesOfGraph(node, lastOp'.g)]_vars

\* a layer of another data type is refused on a graph that holds a
\* selection
C21_Witness ==
    /\ lastOp.op = "check_graph_type"
    /\ lastOp.ok
    /\ ~lastOp.ret
    /\ added_types[lastOp.g] # {}
    /\ lastOp.typ \notin added_types[lastOp.g]
    /\ NodesOfGraph(node, lastOp.g) # {}
    /\ created[lastOp.g] = 2

\* C26: triangulate() runs albion_raster.sql exactly when albion.cell had no
\* committed row before the call, whatever albion.triangulate() has just
\* computed, and refreshes the views otherwise; the cells and what the branch
\* does to the views are committed together, or not at all when a statement
\* raises
C26_InitialisedOnce ==
    /\ [](lastOp.op = "triangulate" /\ "SELECT COUNT(1) FROM albion.cell" \in lastOp.refs
            => /\ lastOp.typ = "albion_raster.sql" <=> lastOp.pre = {}
               /\ lastOp.ret <=> lastOp.pre # {})
    /\ [][lastOp'.op = "triangulate" =>
            IF lastOp'.ok
            THEN cell' = Triangles(collar') /\ hole_nodes' = collar' /\ cells' = cell'
            ELSE UNCHANGED triangulation]_vars

\* the first triangulation of a project with three holes or more: cells
\* are computed, none was committed, albion_raster.sql has run
C26_Witness ==
    /\ lastOp.op = "triangulate"
    /\ lastOp.ok
    /\ lastOp.pre = {}
    /\ cell # {}
    /\ lastOp.typ = "albion_raster.sql"
    /\ ~lastOp.ret

\* no valueChanged signal waits for its slot
Handled == valueChanged = <<>>

\* C27: once the valueChanged signals of a change of a spin box are handled,
\* _depth_min <= _depth_max and _value_min <= _value_max; the slot leaves the
\* maximum boxes alone and changes a minimum box only to lower it to the
\* value of its maximum box; every signal emitted is handled in the end
C27_SpinBoxConstraints ==
    /\ [](Handled => /\ spin_box["_depth_min"] <= spin_box["_depth_max"]
                     /\ spin_box["_value_min"] <= spin_box["_value_max"])
    /\ [][lastOp'.op = "__spin_box_constraints" =>
            \A box \in SpinBoxes :
                \/ spin_box'[box] = spin_box[box]
                \/ /\ box = Connected(box).min_spin_box
                   /\ spin_box'[box] < spin_box[box]
                   /\ spin_box'[box] = spin_box[Connected(box).max_spin_box]]_vars
    /\ ~Handled ~> Handled

\* the maximum of the depths was set under the minimum, and the slot has
\* lowered the minimum and been called again for that change
C27_Witness ==
    /\ Handled
    /\ lastOp.op = "__spin_box_constraints"
    /\ lastOp.g = "_depth_min"
    /\ spin_box["_depth_min"] = spin_box["_depth_max"]
    /\ spin_box["_depth_max"] < SpinMaximum
    /\ spin_box["_depth_min"] > SpinMinimum

====
